---- MODULE Spec2Model ----
(***************************************************************************)
(* A model of the product-data pipeline: the product validator, the        *)
(* import dialog, the catalog importer with its two fallbacks, the pricing *)
(* and MOQ prefillers and the specification hasher.                        *)
(*                                                                         *)
(* Strings are TLA+ strings (sequences of characters).  A nullable number  *)
(* is Null (the empty tuple) or Num(n) (a one-element tuple).  Money is    *)
(* counted in cents in the validator and the importer, so 199.99 is 19999, *)
(* and in thousandths in the prefillers, so 199.99 is 199990 and amounts   *)
(* below one cent exist.  A JavaScript object is a record, and a field the *)
(* object lacks is a field outside the record's DOMAIN.                    *)
(***************************************************************************)
EXTENDS Integers, Sequences, FiniteSets, TLC

VARIABLES
    pc,        \* which step of the modelled operation comes next
    data,      \* the ProductData record the operation works on
    vres,      \* validateProduct's result, once computed
    \* ImportButton (components/ImportButton.tsx)
    state,       \* useState<ImportState>
    result,      \* useState<WooCommerceImportResult | null>
    dialogOpen,  \* useState(false)
    activeTab,   \* useState<'validation' | 'result'>
    calls,       \* wooCommerceApi.importProduct calls started so far
    inflight,    \* of those, the calls that have not returned yet
    \* the woocommerce-import handler
    env,                 \* Deno.env: WOOCOMMERCE_URL, _CONSUMER_KEY, _CONSUMER_SECRET
    posts,               \* the payloads POSTed to the catalog so far, in order
    answers,             \* what the catalog answered to them, in order
    apiResponse,         \* let apiResponse
    importedWithImages,  \* let importedWithImages
    skuModified,         \* let skuModified
    finalSku,            \* let finalSku
    response,            \* the Response the handler returns
    \* the product-research handler's prefill and hashing steps
    rawPricing,        \* const rawPricing
    productCategory,   \* const productCategory
    pricingResults,    \* what each prefillPricing(rawPricing, productCategory) call returned
    rawST,             \* const rawST
    moqResults,        \* what each prefillMoq(rawST) call returned
    specs,             \* the key_specifications list handed to generateSpecHash
    firstHash,         \* generateSpecHash of the list first received
    specHash,          \* const specHash
    \* filterValidImages
    rawImages,         \* parsedData.images || []
    imageResults,      \* what each filterValidImages(rawImages) call returned
    \* product-research handler
    request,           \* the body of the request: await req.json()
    openAiKey,         \* Deno.env.get('OPENAI_API_KEY'), "" when it is not set
    aiCalls,           \* the fetch calls made to the AI endpoint
    aiAnswer,          \* what the AI endpoint answered
    researchResponse,  \* the Response the handler returned
    \* health probe
    probeGets,         \* the GET requests sent to the catalog API
    probeAnswer,       \* what the catalog API answered
    healthResponse,    \* the Response the probe returned
    \* title formatter
    titleArgs,         \* productName, specifications, category
    titleResult,       \* what formatProductTitle returned
    \* workflow API
    workflow,          \* the workflow the client called
    clientResult,      \* what the workflow API call returned to its caller
    \* the research page
    specHashRegistry,  \* const specHashRegistry: the entries of the Map
    submits,           \* the handleSubmit calls so far and how far each has come
    pageData           \* the productData state of Index: the record on display

validatorVars == <<pc, vres>>
uiVars == <<state, result, dialogOpen, activeTab, calls, inflight>>
importVars == <<env, posts, answers, apiResponse, importedWithImages, skuModified, finalSku,
                response>>
researchVars == <<rawPricing, productCategory, pricingResults, rawST, moqResults, specs,
                  firstHash, specHash>>
imageVars == <<rawImages, imageResults>>
handlerVars == <<request, openAiKey, aiCalls, aiAnswer, researchResponse>>
probeVars == <<probeGets, probeAnswer, healthResponse>>
titleVars == <<titleArgs, titleResult>>
clientVars == <<workflow, clientResult>>
pageVars == <<specHashRegistry, submits, pageData>>
laterVars == <<imageVars, handlerVars, probeVars, titleVars, clientVars, pageVars>>
vars == <<data, validatorVars, uiVars, importVars, researchVars, laterVars>>

\* The value of the variables an operation does not use.
uiIdle ==
    /\ state = "idle" /\ result = "null" /\ dialogOpen = FALSE
    /\ activeTab = "validation" /\ calls = 0 /\ inflight = 0

NoEnv == [WOOCOMMERCE_URL |-> "", WOOCOMMERCE_CONSUMER_KEY |-> "",
          WOOCOMMERCE_CONSUMER_SECRET |-> ""]
NoResponse == [pending |-> TRUE]

importIdle ==
    /\ env = NoEnv /\ posts = <<>> /\ answers = <<>> /\ apiResponse = NoResponse
    /\ importedWithImages = TRUE /\ skuModified = FALSE /\ finalSku = ""
    /\ response = NoResponse

NoPricing == [cost_price |-> <<>>, supply_price |-> <<>>, wholesale_price |-> <<>>,
              retail_price |-> <<>>]
NoMoq == [supplier_name |-> "", hs_code |-> "", moq |-> <<>>,
          moq_exclusive_importer |-> <<>>, moq_distributor |-> <<>>, moq_retailer |-> <<>>]

pricingIdle == rawPricing = NoPricing /\ productCategory = "" /\ pricingResults = <<>>
moqIdle == rawST = NoMoq /\ moqResults = <<>>
hashIdle == specs = <<>> /\ firstHash = "" /\ specHash = ""
imageIdle == rawImages = <<>> /\ imageResults = <<>>
NoRequest == [none |-> TRUE]
NoAnswer == [none |-> TRUE]
handlerIdle ==
    /\ request = NoRequest /\ openAiKey = "" /\ aiCalls = 0 /\ aiAnswer = NoAnswer
    /\ researchResponse = NoResponse
probeIdle == probeGets = <<>> /\ probeAnswer = NoAnswer /\ healthResponse = NoResponse
NoArgs == [none |-> TRUE]
titleIdle == titleArgs = NoArgs /\ titleResult = ""
clientIdle == workflow = "none" /\ clientResult = NoResponse
NoRecord == [none |-> TRUE]
pageIdle == specHashRegistry = {} /\ submits = <<>> /\ pageData = NoRecord
laterIdle == imageIdle /\ handlerIdle /\ probeIdle /\ titleIdle /\ clientIdle /\ pageIdle
researchIdle == pricingIdle /\ moqIdle /\ hashIdle /\ laterIdle

------------------------------------------------------------------------------
(* Values *)

Null == <<>>
Num(n) == <<n>>
IsNull(x) == x = Null
Val(x) == x[1]

\* JavaScript truthiness of a nullable number: `x` in `if (x)`, `!x`.
Truthy(x) == ~IsNull(x) /\ Val(x) # 0
\* `x > 0` and `x <= 0` on a nullable number (null compares as 0).
Gt0(x) == ~IsNull(x) /\ Val(x) > 0
Le0(x) == IsNull(x) \/ Val(x) <= 0

Cond(c, e) == IF c THEN <<e>> ELSE <<>>

------------------------------------------------------------------------------
(* String helpers: String.prototype.trim, split, includes, startsWith *)

Char(s, i) == SubSeq(s, i, i)

WhiteSpace == {" ", "\t", "\n"}

RECURSIVE TrimStart(_)
TrimStart(s) ==
    IF Len(s) > 0 /\ Char(s, 1) \in WhiteSpace
    THEN TrimStart(SubSeq(s, 2, Len(s)))
    ELSE s

RECURSIVE TrimEnd(_)
TrimEnd(s) ==
    IF Len(s) > 0 /\ Char(s, Len(s)) \in WhiteSpace
    THEN TrimEnd(SubSeq(s, 1, Len(s) - 1))
    ELSE s

Trim(s) == TrimEnd(TrimStart(s))

\* s.split(sep) for a one-character separator: "" gives <<"">>.
RECURSIVE SplitFrom(_, _, _)
SplitFrom(s, sep, cur) ==
    IF Len(s) = 0 THEN <<cur>>
    ELSE IF Char(s, 1) = sep
         THEN <<cur>> \o SplitFrom(SubSeq(s, 2, Len(s)), sep, "")
         ELSE SplitFrom(SubSeq(s, 2, Len(s)), sep, cur \o Char(s, 1))

Split(s, sep) == SplitFrom(s, sep, "")

StartsWith(s, p) == Len(s) >= Len(p) /\ SubSeq(s, 1, Len(p)) = p

Includes(s, sub) ==
    \E i \in 1..(Len(s) - Len(sub) + 1) : SubSeq(s, i, i + Len(sub) - 1) = sub

UpperLetters == {"A", "B", "C", "D", "E", "F", "G", "H", "I", "J", "K", "L", "M",
                 "N", "O", "P", "Q", "R", "S", "T", "U", "V", "W", "X", "Y", "Z"}
LowerLetters == {"a", "b", "c", "d", "e", "f", "g", "h", "i", "j", "k", "l", "m",
                 "n", "o", "p", "q", "r", "s", "t", "u", "v", "w", "x", "y", "z"}
Digits == {"0", "1", "2", "3", "4", "5", "6", "7", "8", "9"}

\* All strings over the characters `chars` of length at most n.
RECURSIVE StringsUpTo(_, _)
StringsUpTo(chars, n) ==
    IF n = 0 THEN {""}
    ELSE LET shorter == StringsUpTo(chars, n - 1)
         IN  shorter \cup {s \o c : s \in shorter, c \in chars}

\* String.prototype.substring(a, b), 0-based, b exclusive.
Substring(s, a, b) ==
    LET hi == IF b > Len(s) THEN Len(s) ELSE b
    IN  IF a >= hi THEN "" ELSE SubSeq(s, a + 1, hi)

UpperSeq == "ABCDEFGHIJKLMNOPQRSTUVWXYZ"
LowerSeq == "abcdefghijklmnopqrstuvwxyz"
DigitSeq == "0123456789"
Base36Seq == "0123456789abcdefghijklmnopqrstuvwxyz"

IndexIn(seq, c) == CHOOSE i \in 1..Len(seq) : Char(seq, i) = c

LowerChar(c) == IF c \in UpperLetters THEN Char(LowerSeq, IndexIn(UpperSeq, c)) ELSE c
UpperChar(c) == IF c \in LowerLetters THEN Char(UpperSeq, IndexIn(LowerSeq, c)) ELSE c

\* toLowerCase() and toUpperCase(), one character after the other from
\* position i on.
RECURSIVE LowerFrom(_, _)
LowerFrom(s, i) ==
    IF i > Len(s) THEN "" ELSE LowerChar(Char(s, i)) \o LowerFrom(s, i + 1)

ToLower(s) == LowerFrom(s, 1)

RECURSIVE UpperFrom(_, _)
UpperFrom(s, i) ==
    IF i > Len(s) THEN "" ELSE UpperChar(Char(s, i)) \o UpperFrom(s, i + 1)

ToUpper(s) == UpperFrom(s, 1)

\* s.split(sep) for a separator of any length >= 1.
RECURSIVE SplitByFrom(_, _, _)
SplitByFrom(s, sep, cur) ==
    IF Len(s) = 0 THEN <<cur>>
    ELSE IF StartsWith(s, sep)
         THEN <<cur>> \o SplitByFrom(SubSeq(s, Len(sep) + 1, Len(s)), sep, "")
         ELSE SplitByFrom(SubSeq(s, 2, Len(s)), sep, cur \o Char(s, 1))

SplitBy(s, sep) == SplitByFrom(s, sep, "")

\* list.join(sep)
RECURSIVE Join(_, _)
Join(list, sep) ==
    IF Len(list) = 0 THEN ""
    ELSE IF Len(list) = 1 THEN list[1]
         ELSE list[1] \o sep \o Join(Tail(list), sep)

\* Number.prototype.toString(radix) of a non-negative integer, radix <= 36.
RECURSIVE NatToString(_, _)
NatToString(n, radix) ==
    IF n < radix THEN Char(Base36Seq, n + 1)
    ELSE NatToString(n \div radix, radix) \o Char(Base36Seq, (n % radix) + 1)

\* toString() of an integer.
IntToString(n) == IF n < 0 THEN "-" \o NatToString(-n, 10) ELSE NatToString(n, 10)

\* toString() of an amount of money held in cents: 19999 is "199.99", 14810 is
\* "148.1", 100 is "1".
CentsToString(c) ==
    LET a == IF c < 0 THEN -c ELSE c
        whole == NatToString(a \div 100, 10)
        frac == a % 100
        digits == IF frac = 0 THEN ""
                  ELSE IF frac % 10 = 0 THEN "." \o NatToString(frac \div 10, 10)
                  ELSE "." \o NatToString(frac \div 10, 10) \o NatToString(frac % 10, 10)
    IN  (IF c < 0 THEN "-" ELSE "") \o whole \o digits

------------------------------------------------------------------------------
(* The product validator: validateProduct of lib/api/productResearch.ts *)

\* SKU_PATTERN = /^[a-z0-9]+(-[a-z0-9]+)+$/
SkuChars == LowerLetters \cup Digits
SKU_PATTERN(s) ==
    LET parts == Split(s, "-")
    IN  /\ Len(parts) >= 2
        /\ \A i \in 1..Len(parts) :
              /\ Len(parts[i]) > 0
              /\ \A j \in 1..Len(parts[i]) : Char(parts[i], j) \in SkuChars

Err(f, m, c) == [field |-> f, message |-> m, category |-> c]
Warn(f, m) == [field |-> f, message |-> m]

\* `!obj.list || obj.list.length === 0`
NoList(obj, f) == f \notin DOMAIN obj \/ Len(obj[f]) = 0
\* `!obj.text` for a string field
NoText(obj, f) == f \notin DOMAIN obj \/ obj[f] = ""

\* One `if (!data.section?.field) warnings.push(...)` line per entry, source order.
SupplierCompanyRules == <<
    <<"supplier_trade", "supplier_name", "Supplier name should be specified">>,
    <<"supplier_trade", "hs_code", "HS Code should be specified">>,
    <<"company_info", "company_name", "Company name should be specified">>,
    <<"company_info", "country_of_origin", "Country of origin should be specified">>,
    <<"company_info", "year_established", "Year established should be specified">>,
    <<"company_info", "ownership_partnerships", "Ownership/partnerships should be specified">>,
    <<"company_info", "daily_production", "Daily production should be specified">>,
    <<"company_info", "annual_output", "Annual output should be specified">>,
    <<"company_info", "lines_installed", "Lines installed should be specified">>,
    <<"company_info", "major_products", "Major products should be specified">>,
    <<"certifications_standards", "safety_certificates", "Safety certificates should be specified">>,
    <<"certifications_standards", "additional_certifications", "Additional certifications should be specified">>,
    <<"certifications_standards", "export_licenses", "Export licenses should be specified">>,
    <<"certifications_standards", "traceability_systems", "Traceability systems should be specified">>,
    <<"clients_markets", "key_clients", "Key clients should be specified">>,
    <<"clients_markets", "export_markets", "Export markets should be specified">>,
    <<"clients_markets", "government_supply_track_record", "Government supply track record should be specified">>,
    <<"contact_logistics", "factory_address", "Factory address should be specified">>,
    <<"contact_logistics", "nearest_port_of_loading", "Nearest port should be specified">>,
    <<"contact_logistics", "export_documentation", "Export documentation should be specified">>,
    <<"contact_logistics", "email", "Contact email should be specified">>,
    <<"contact_logistics", "contact_number", "Contact number should be specified">>,
    <<"logistics", "manufacturing_time", "Manufacturing time should be specified">>,
    <<"logistics", "transit_time", "Transit time should be specified">>,
    <<"logistics", "packaging_details", "Packaging details should be specified">>,
    <<"logistics", "payment_method", "Payment method should be specified">> >>

RECURSIVE TextWarnings(_, _, _)
TextWarnings(d, rules, i) ==
    IF i > Len(rules) THEN <<>>
    ELSE Cond(NoText(d[rules[i][1]], rules[i][2]),
              Warn(rules[i][1] \o "." \o rules[i][2], rules[i][3]))
         \o TextWarnings(d, rules, i + 1)

TitleErrors(d) ==
    IF d.product_title = "" \/ Trim(d.product_title) = ""
    THEN <<Err("product_title", "Product title is required", "title")>>
    ELSE Cond(Len(Split(Trim(d.product_title), " ")) < 2,
              Err("product_title", "Title must include at least Brand + Model", "title"))

TitleWarnings(d) ==
    IF d.product_title = "" \/ Trim(d.product_title) = ""
    THEN <<>>
    ELSE LET words == Split(Trim(d.product_title), " ")
         IN  Cond(words[1] # "" /\ Char(words[1], 1) \notin UpperLetters,
                  Warn("product_title", "Brand name should start with a capital letter"))

SkuErrors(d) ==
    Cond(d.sku = "" \/ Trim(d.sku) = "", Err("sku", "SKU is required", "sku"))

SkuWarnings(d) ==
    Cond(~(d.sku = "" \/ Trim(d.sku) = "") /\ ~SKU_PATTERN(d.sku),
         Warn("sku", "SKU should be lowercase, hyphenated (e.g., jimmy-h8-flex)"))

CategoryErrors(d) ==
    Cond(d.category = "" \/ Trim(d.category) = "",
         Err("category", "Category is required", "category"))

ImageCountText(n) == IF n = 1 THEN "1" ELSE "2"

ImageWarnings(d) ==
    IF NoList(d, "images")
    THEN <<Warn("images", "No product images - product will be imported as draft")>>
    ELSE Cond(Len(d.images) < 3,
              Warn("images", "Only " \o ImageCountText(Len(d.images))
                             \o " image(s) - recommend at least 3"))

hasSomePricing(p) ==
    \/ (~IsNull(p.cost_price) /\ Val(p.cost_price) > 0)
    \/ (~IsNull(p.supply_price) /\ Val(p.supply_price) > 0)
    \/ (~IsNull(p.wholesale_price) /\ Val(p.wholesale_price) > 0)
    \/ (~IsNull(p.retail_price) /\ Val(p.retail_price) > 0)

PricingErrors(d) ==
    Cond(~hasSomePricing(d.pricing),
         Err("pricing", "At least one pricing field must be set", "pricing"))

\* `!x || x <= 0`
Missing(x) == ~Truthy(x) \/ Val(x) <= 0

PricingWarnings(d) ==
    LET p == d.pricing IN
    IF ~hasSomePricing(p) THEN <<>>
    ELSE Cond(Missing(p.cost_price),
              Warn("pricing.cost_price", "Cost price missing - using estimated value"))
      \o Cond(Missing(p.supply_price),
              Warn("pricing.supply_price", "Supply price missing - using estimated value"))
      \o Cond(Missing(p.wholesale_price),
              Warn("pricing.wholesale_price", "Wholesale price missing - using estimated value"))
      \o Cond(Missing(p.retail_price),
              Warn("pricing.retail_price", "Retail price missing - using estimated value"))

HierarchyWarnings(d) ==
    LET p == d.pricing IN
    IF Truthy(p.cost_price) /\ Truthy(p.supply_price)
       /\ Truthy(p.wholesale_price) /\ Truthy(p.retail_price)
    THEN Cond(Val(p.cost_price) >= Val(p.supply_price),
              Warn("pricing", "Cost price should be less than supply price"))
      \o Cond(Val(p.supply_price) >= Val(p.wholesale_price),
              Warn("pricing", "Supply price should be less than wholesale price"))
      \o Cond(Val(p.wholesale_price) >= Val(p.retail_price),
              Warn("pricing", "Wholesale price should be less than retail price"))
    ELSE <<>>

MoqWarnings(d) ==
    LET st == d.supplier_trade IN
         Cond(Le0(st.moq), Warn("supplier_trade.moq", "Base MOQ missing - using default"))
      \o Cond(Le0(st.moq_exclusive_importer),
              Warn("supplier_trade.moq_exclusive_importer", "MOQ Exclusive Importer using default"))
      \o Cond(Le0(st.moq_distributor),
              Warn("supplier_trade.moq_distributor", "MOQ Distributor using default"))
      \o Cond(Le0(st.moq_retailer),
              Warn("supplier_trade.moq_retailer", "MOQ Retailer using default"))

\* A variant that only notices a missing list, not an empty one.
SpecificationErrors_OnlyMissing(d) ==
    Cond("key_specifications" \notin DOMAIN d.sales_content,
         Err("sales_content.key_specifications",
             "At least one key specification is required", "specifications"))

SpecificationErrors(d) ==
    Cond(NoList(d.sales_content, "key_specifications"),
         Err("sales_content.key_specifications",
             "At least one key specification is required", "specifications"))

ContentWarnings(d) ==
         Cond(NoList(d.sales_content, "applications"),
              Warn("sales_content.applications", "Applications should be specified"))
      \o Cond(NoText(d.descriptions, "product_overview"),
              Warn("descriptions.product_overview", "Product overview should be provided"))
      \o Cond(NoText(d.descriptions, "product_identity"),
              Warn("descriptions.product_identity", "Product identity should be provided"))
      \o Cond(NoList(d.descriptions, "key_highlights"),
              Warn("descriptions.key_highlights", "Key highlights should be included"))
      \o Cond(NoText(d.descriptions, "trust_assurance"),
              Warn("descriptions.trust_assurance", "Trust & assurance should be provided"))
      \o Cond(NoList(d, "review_notes"),
              Warn("review_notes", "No review notes found"))

validateProduct(d) ==
    LET errors == TitleErrors(d) \o SkuErrors(d) \o CategoryErrors(d)
                  \o PricingErrors(d) \o SpecificationErrors(d)
        warnings == TitleWarnings(d) \o SkuWarnings(d) \o ImageWarnings(d)
                    \o PricingWarnings(d) \o HierarchyWarnings(d) \o MoqWarnings(d)
                    \o TextWarnings(d, SupplierCompanyRules, 1) \o ContentWarnings(d)
    IN  [isValid |-> Len(errors) = 0, errors |-> errors, warnings |-> warnings]

------------------------------------------------------------------------------
(* ProductData records (types/product.ts) the operations are run on *)

MaxTitleLen == 3

TextSections(t) ==
    [company_info |->
        [company_name |-> t, country_of_origin |-> t, year_established |-> t,
         ownership_partnerships |-> t, daily_production |-> t, annual_output |-> t,
         lines_installed |-> t, major_products |-> t],
     certifications_standards |->
        [safety_certificates |-> t, additional_certifications |-> t,
         export_licenses |-> t, traceability_systems |-> t],
     clients_markets |->
        [key_clients |-> t, export_markets |-> t, government_supply_track_record |-> t],
     contact_logistics |->
        [factory_address |-> t, nearest_port_of_loading |-> t,
         export_documentation |-> t, email |-> t, contact_number |-> t],
     logistics |->
        [import_certification_required |-> FALSE, import_certification_details |-> t,
         manufacturing_time |-> t, transit_time |-> t, packaging_details |-> t,
         payment_method |-> t],
     descriptions |->
        [product_overview |-> t, product_identity |-> t,
         key_highlights |-> IF t = "" THEN <<>> ELSE <<t>>, trust_assurance |-> t]]

Pricing(c, s, w, r) ==
    [cost_price |-> c, supply_price |-> s, wholesale_price |-> w, retail_price |-> r]

SupplierTrade(t, m, me, md, mr) ==
    [supplier_name |-> t, hs_code |-> t, moq |-> m, moq_exclusive_importer |-> me,
     moq_distributor |-> md, moq_retailer |-> mr]

\* sales_content with key_specifications `ks`; Absent leaves the field out.
Absent == <<"absent">>
SalesContent(ks, t) ==
    LET rest == [package_options |-> <<>>,
                 applications |-> IF t = "" THEN <<>> ELSE <<t>>,
                 certifications |-> <<>>]
    IN  IF ks = Absent THEN rest
        ELSE [f \in DOMAIN rest \cup {"key_specifications"} |->
                 IF f = "key_specifications" THEN ks ELSE rest[f]]

ProductData(title, sku, category, images, pricing, moqs, ks, t) ==
    LET sec == TextSections(t) IN
    [product_title |-> title, sku |-> sku, product_type |-> "simple",
     category |-> category, images |-> images,
     company_info |-> sec.company_info,
     certifications_standards |-> sec.certifications_standards,
     clients_markets |-> sec.clients_markets,
     contact_logistics |-> sec.contact_logistics,
     pricing |-> pricing,
     supplier_trade |-> SupplierTrade(t, moqs[1], moqs[2], moqs[3], moqs[4]),
     logistics |-> sec.logistics,
     sales_content |-> SalesContent(ks, t),
     descriptions |-> sec.descriptions,
     review_notes |-> IF t = "" THEN <<>>
                      ELSE <<[type |-> "source", message |-> t]>>]

------------------------------------------------------------------------------
(* SpecValidate: validateProduct applied to a record *)

TitleInputs == StringsUpTo({"A", "a", " "}, MaxTitleLen) \cup {"Acme\tX1", "Acme X1 550W"}
SkuInputs == {"", " ", "a-1", "A 1"}
CategoryInputs == {"", " ", "Home > Vacuums"}
TierInputs == {Null, Num(0), Num(19999)}
KeySpecInputs == {Absent, <<>>, <<"550W">>}

NoResult == [pending |-> TRUE]

InitValidate ==
    /\ pc = "validate"
    /\ \E t \in TitleInputs, s \in SkuInputs, c \in CategoryInputs, ks \in KeySpecInputs,
          p \in TierInputs \X TierInputs \X TierInputs \X TierInputs :
          data = ProductData(t, s, c, <<>>, Pricing(p[1], p[2], p[3], p[4]),
                             <<Null, Num(0), Num(100), Num(50)>>, ks, "")
    /\ vres = NoResult
    /\ uiIdle
    /\ importIdle
    /\ researchIdle

Validate ==
    /\ pc = "validate"
    /\ vres' = validateProduct(data)
    /\ pc' = "validated"
    /\ UNCHANGED <<data, researchVars, laterVars, uiVars, importVars>>

NextValidate == Validate

SpecValidate == InitValidate /\ [][NextValidate]_vars

------------------------------------------------------------------------------
(* C1 *)

\* A string the validator takes as empty: nothing but white space in it.
Blank(s) == \A i \in 1..Len(s) : Char(s, i) \in WhiteSpace

FewerThanTwoWords(s) == ~Blank(s) /\ ~Includes(Trim(s), " ")

NoTierAboveZero(p) ==
    \A f \in {"cost_price", "supply_price", "wholesale_price", "retail_price"} :
        p[f] = Null \/ Val(p[f]) <= 0

NoKeySpecifications(d) ==
    \/ "key_specifications" \notin DOMAIN d.sales_content
    \/ d.sales_content.key_specifications = <<>>

HasErrorOfCategory(r, c) == \E i \in 1..Len(r.errors) : r.errors[i].category = c

\* C1: validateProduct returns isValid = TRUE exactly when its errors list is
\* empty; the errors list is non-empty exactly when the title is empty or has
\* fewer than two space-separated words, the SKU is empty, the category is
\* empty, no pricing tier is above zero, or key_specifications is empty or
\* missing ("empty" as the validator reads a string: nothing left after
\* trimming); a record with all four tiers null and an empty key_specifications
\* list gets a pricing error and a specifications error, and isValid = FALSE.
C1_ValidatorErrors ==
    pc = "validated" =>
        /\ vres.isValid <=> (vres.errors = <<>>)
        /\ (vres.errors # <<>>) <=>
              \/ Blank(data.product_title)
              \/ FewerThanTwoWords(data.product_title)
              \/ Blank(data.sku)
              \/ Blank(data.category)
              \/ NoTierAboveZero(data.pricing)
              \/ NoKeySpecifications(data)
        /\ (data.pricing = Pricing(Null, Null, Null, Null)
            /\ "key_specifications" \in DOMAIN data.sales_content
            /\ data.sales_content.key_specifications = <<>>)
            => /\ Len(vres.errors) >= 2
               /\ HasErrorOfCategory(vres, "pricing")
               /\ HasErrorOfCategory(vres, "specifications")
               /\ ~vres.isValid

C1_Witness ==
    /\ pc = "validated"
    /\ data.pricing = Pricing(Null, Null, Null, Null)
    /\ "key_specifications" \in DOMAIN data.sales_content
    /\ data.sales_content.key_specifications = <<>>
    /\ ~Blank(data.product_title) /\ ~FewerThanTwoWords(data.product_title)
    /\ ~Blank(data.sku) /\ ~Blank(data.category)
    /\ Len(vres.errors) = 2
    /\ ~vres.isValid

------------------------------------------------------------------------------
(* SpecUI: one ImportButton, mounted with one record *)

MaxImports == 3

Images3 == <<"https://cdn.example.com/a.jpg", "https://cdn.example.com/b.jpg",
             "https://cdn.example.com/c.jpg">>
GoodMoqs == <<Num(100), Num(500), Num(200), Num(50)>>
GoodPricing == Pricing(Num(11022), Num(12345), Num(14814), Num(19999))

UIInputs ==
    { \* valid, no warnings
      ProductData("Acme X1 550W", "acme-x1", "Home > Vacuums", Images3,
                  GoodPricing, GoodMoqs, <<"550W">>, "x"),
      \* valid, warnings only
      ProductData("acme X1", "Acme X1", "Home > Vacuums", <<>>,
                  Pricing(Null, Null, Null, Num(19999)),
                  <<Null, Null, Null, Null>>, <<"550W">>, ""),
      \* invalid: no key specifications
      ProductData("Acme X1 550W", "acme-x1", "Home > Vacuums", Images3,
                  GoodPricing, GoodMoqs, <<>>, "x"),
      \* invalid: no price, blank SKU
      ProductData("Acme X1", " ", "Home > Vacuums", <<>>,
                  Pricing(Null, Null, Null, Null), GoodMoqs, <<"550W">>, ""),
      \* invalid: one-word title
      ProductData("Acme", "acme-x1", "", Images3,
                  GoodPricing, GoodMoqs, Absent, "x") }

\* useMemo(() => validateProduct(productData), [productData])
validationResult == validateProduct(data)

InitUI ==
    /\ data \in UIInputs
    /\ pc = "mounted"
    /\ vres = NoResult
    /\ uiIdle
    /\ importIdle
    /\ researchIdle

\* wooCommerceApi.importProduct(productData) is called and awaited.
StartImport ==
    /\ calls' = calls + 1
    /\ inflight' = inflight + 1

\* A variant that starts the import without looking at the validation result.
handleImport_NoCheck ==
    /\ state # "importing"
    /\ calls < MaxImports
    /\ state' = "importing"
    /\ dialogOpen' = TRUE
    /\ activeTab' = "result"
    /\ StartImport
    /\ UNCHANGED <<result, data, researchVars, laterVars, validatorVars, importVars>>

\* The Import button (disabled while state is 'importing') is clicked.
handleImport ==
    /\ state # "importing"
    /\ calls < MaxImports
    /\ IF ~validationResult.isValid
       THEN /\ dialogOpen' = TRUE
            /\ activeTab' = "validation"
            /\ UNCHANGED <<state, result, calls, inflight>>
       ELSE /\ state' = "importing"
            /\ dialogOpen' = TRUE
            /\ activeTab' = "result"
            /\ StartImport
            /\ UNCHANGED result
    /\ UNCHANGED <<data, researchVars, laterVars, validatorVars, importVars>>

\* A variant that shows the proceed button whatever the state is.
ProceedOffered_AnyState ==
    /\ dialogOpen
    /\ activeTab = "validation"
    /\ validationResult.isValid

\* Whether the dialog shows the button that runs handleProceedWithWarnings.
ProceedOffered ==
    /\ dialogOpen
    /\ state \in {"idle", "validating"}
    /\ activeTab = "validation"
    /\ validationResult.isValid

handleProceedWithWarnings ==
    /\ ProceedOffered
    /\ calls < MaxImports
    /\ state' = "importing"
    /\ activeTab' = "result"
    /\ StartImport
    /\ UNCHANGED <<result, dialogOpen, data, researchVars, laterVars, validatorVars, importVars>>

\* The dialog is dismissed (onOpenChange), or Close is clicked on the error view.
handleClose ==
    /\ dialogOpen
    /\ dialogOpen' = FALSE
    /\ IF state # "importing"
       THEN state' = "idle" /\ result' = "null"
       ELSE UNCHANGED <<state, result>>
    /\ UNCHANGED <<activeTab, calls, inflight, data, researchVars, laterVars, validatorVars, importVars>>

handleValidateClick ==
    /\ dialogOpen' = TRUE
    /\ activeTab' = "validation"
    /\ UNCHANGED <<state, result, calls, inflight, data, researchVars, laterVars, validatorVars, importVars>>

\* The awaited call returns a result, or throws and is caught.
ImportSettles ==
    /\ inflight > 0
    /\ \E outcome \in {"success", "failure", "thrown"} :
          /\ result' = outcome
          /\ state' = IF outcome = "success" THEN "success" ELSE "error"
    /\ inflight' = inflight - 1
    /\ UNCHANGED <<dialogOpen, activeTab, calls, data, researchVars, laterVars, validatorVars, importVars>>

NextUI ==
    \/ handleImport
    \/ handleProceedWithWarnings
    \/ handleClose
    \/ handleValidateClick
    \/ ImportSettles

SpecUI == InitUI /\ [][NextUI]_vars

\* The awaited call returns or throws: the continuation of the handler that
\* started it is then run.
SpecUISettling == InitUI /\ [][NextUI]_vars /\ WF_vars(ImportSettles)

------------------------------------------------------------------------------
(* C2 *)

\* C2: importProduct is never called for a record whose validation result has
\* isValid = FALSE: clicking Import on such a record only opens the validation
\* report, the proceed action is offered only when isValid is TRUE, and a
\* record with warnings but no errors is imported on either click.
C2_InvalidNeverImported ==
    /\ [](~validationResult.isValid => calls = 0 /\ ~ProceedOffered)
    /\ [][ /\ (handleImport /\ ~validationResult.isValid)
              => /\ dialogOpen' /\ activeTab' = "validation"
                 /\ UNCHANGED <<state, result, calls, inflight>>
           /\ ((handleImport \/ handleProceedWithWarnings)
               /\ validationResult.isValid /\ validationResult.warnings # <<>>)
              => calls' = calls + 1 ]_vars

C2_Witness ==
    /\ ~validationResult.isValid
    /\ dialogOpen /\ activeTab = "validation" /\ state = "idle"
    /\ calls = 0

------------------------------------------------------------------------------
(* The catalog importer: the woocommerce-import handler *)

validImageExtensions == <<".jpg", ".jpeg", ".png", ".gif", ".webp">>
validImageFormats == <<"fm=jpg", "fm=jpeg", "fm=png", "fm=gif", "fm=webp",
                       "format=jpg", "format=jpeg", "format=png">>
invalidDomains == <<"via.placeholder.com", "placeholder.com", "placehold.it",
                    "placekitten.com", "picsum.photos">>
trustedCdns == <<"images.unsplash.com", "cdn.shopify.com", "i.imgur.com",
                 "cloudinary.com", "res.cloudinary.com">>

\* list.some(x => s.includes(x))
IncludesSome(s, list) == \E i \in 1..Len(list) : Includes(s, list[i])

\* The callback of productData.images.filter(...)
ImportImageOk(url) ==
    /\ url # ""
    /\ ~IncludesSome(ToLower(url), invalidDomains)
    /\ (StartsWith(url, "http://") \/ StartsWith(url, "https://"))
    /\ \/ IncludesSome(ToLower(url), validImageExtensions)
       \/ IncludesSome(ToLower(url), validImageFormats)
       \/ IncludesSome(ToLower(url), trustedCdns)

RECURSIVE FilterImportImages(_)
FilterImportImages(list) ==
    IF Len(list) = 0 THEN <<>>
    ELSE (IF ImportImageOk(list[1]) THEN <<list[1]>> ELSE <<>>)
         \o FilterImportImages(Tail(list))

validImages(d) == FilterImportImages(d.images)

\* validImages.map((url, index) => ({ src: url, position: index }))
ImagePayload(urls) == [i \in 1..Len(urls) |-> [src |-> urls[i], position |-> i - 1]]

RECURSIVE MapLi(_)
MapLi(list) ==
    IF Len(list) = 0 THEN <<>>
    ELSE <<"<li>" \o list[1] \o "</li>">> \o MapLi(Tail(list))

ReviewNoteLi(n) ==
    "<li><strong>" \o ToUpper(n.type) \o "</strong>"
    \o (IF "field" \in DOMAIN n /\ n.field # "" THEN " (" \o n.field \o ")" ELSE "")
    \o ": " \o n.message \o "</li>"

RECURSIVE MapReviewNotes(_)
MapReviewNotes(notes) ==
    IF Len(notes) = 0 THEN <<>>
    ELSE <<ReviewNoteLi(notes[1])>> \o MapReviewNotes(Tail(notes))

reviewNotesHtml(d) ==
    IF Len(d.review_notes) > 0
    THEN "\n\n<h3>Review Notes:</h3>\n<ul>"
         \o Join(MapReviewNotes(d.review_notes), "\n") \o "</ul>"
    ELSE ""

keyHighlightsHtml(d) ==
    IF Len(d.descriptions.key_highlights) > 0
    THEN "<h3>Key Highlights</h3>\n<ul>"
         \o Join(MapLi(d.descriptions.key_highlights), "\n") \o "</ul>"
    ELSE ""

fullDescription(d) ==
    d.descriptions.product_overview \o "\n\n" \o keyHighlightsHtml(d) \o reviewNotesHtml(d)

shortDescription(d) ==
    IF Len(d.sales_content.key_specifications) > 0
    THEN "<ul>" \o Join(MapLi(d.sales_content.key_specifications), "\n") \o "</ul>"
    ELSE Substring(d.descriptions.product_overview, 0, 200)

\* `n?.toString() || ''` of a nullable count
CountText(x) == IF IsNull(x) THEN "" ELSE IntToString(Val(x))
\* `p?.toString() || ''` of a nullable price
PriceText(x) == IF IsNull(x) THEN "" ELSE CentsToString(Val(x))

\* JSON.stringify of a string: quotes and backslashes are escaped.
RECURSIVE JsonEscape(_)
JsonEscape(s) ==
    IF Len(s) = 0 THEN ""
    ELSE (IF Char(s, 1) \in {"\"", "\\"} THEN "\\" ELSE "") \o Char(s, 1)
         \o JsonEscape(SubSeq(s, 2, Len(s)))

JsonString(s) == "\"" \o JsonEscape(s) \o "\""

RECURSIVE MapCertification(_)
MapCertification(list) ==
    IF Len(list) = 0 THEN <<>>
    ELSE <<"{\"name\":" \o JsonString(list[1].name)
           \o ",\"details\":" \o JsonString(list[1].details) \o "}">>
         \o MapCertification(Tail(list))

\* JSON.stringify(productData.sales_content.certifications)
CertificationsJson(list) == "[" \o Join(MapCertification(list), ",") \o "]"

Meta(k, v) == [key |-> k, value |-> v]

metaData(d) == <<
    Meta("supplier_name", d.supplier_trade.supplier_name),
    Meta("hs_code", d.supplier_trade.hs_code),
    Meta("moq", CountText(d.supplier_trade.moq)),
    Meta("moq_exclusive_importer", CountText(d.supplier_trade.moq_exclusive_importer)),
    Meta("moq_distributor", CountText(d.supplier_trade.moq_distributor)),
    Meta("moq_retailer", CountText(d.supplier_trade.moq_retailer)),
    Meta("cost_price", PriceText(d.pricing.cost_price)),
    Meta("supply_price", PriceText(d.pricing.supply_price)),
    Meta("wholesale_price", PriceText(d.pricing.wholesale_price)),
    Meta("import_certification",
         IF d.logistics.import_certification_required THEN "yes" ELSE "no"),
    Meta("import_certification_details", d.logistics.import_certification_details),
    Meta("manufacturing_time", d.logistics.manufacturing_time),
    Meta("key_specifications", Join(d.sales_content.key_specifications, "\n")),
    Meta("package_options", Join(d.sales_content.package_options, "\n")),
    Meta("applications", Join(d.sales_content.applications, "\n")),
    Meta("certifications", CertificationsJson(d.sales_content.certifications)),
    Meta("product_overview", d.descriptions.product_overview),
    Meta("key_highlights", Join(d.descriptions.key_highlights, "\n")) >>

\* A variant that keeps the first segment of the path.
CategoryName_First(category) == SplitBy(category, " > ")[1]

\* `productData.category.split(' > ').pop() || productData.category`
CategoryName(category) ==
    LET parts == SplitBy(category, " > ")
        last == parts[Len(parts)]
    IN  IF last # "" THEN last ELSE category

\* A variant that publishes at once.
PayloadStatus_Publish == "publish"

\* status: 'draft', // Import as draft for review
PayloadStatus == "draft"

wooProduct(d) ==
    [name |-> d.product_title,
     type |-> "simple",
     sku |-> d.sku,
     regular_price |-> IF IsNull(d.pricing.retail_price) THEN "0"
                       ELSE CentsToString(Val(d.pricing.retail_price)),
     description |-> fullDescription(d),
     short_description |-> shortDescription(d),
     categories |-> <<[name |-> CategoryName(d.category)]>>,
     images |-> ImagePayload(validImages(d)),
     meta_data |-> metaData(d),
     status |-> PayloadStatus]


\* wooUrl.replace(/\/+$/, '').replace(/\/wp-admin\/?.*$/i, '')
RECURSIVE StripTrailingSlashes(_)
StripTrailingSlashes(u) ==
    IF Len(u) > 0 /\ Char(u, Len(u)) = "/"
    THEN StripTrailingSlashes(SubSeq(u, 1, Len(u) - 1))
    ELSE u

CutAtWpAdmin(u) ==
    LET hits == {i \in 1..Len(u) : StartsWith(ToLower(SubSeq(u, i, Len(u))), "/wp-admin")}
    IN  IF hits = {} THEN u
        ELSE SubSeq(u, 1, (CHOOSE i \in hits : \A j \in hits : i <= j) - 1)

normalizedUrl(wooUrl) == CutAtWpAdmin(StripTrailingSlashes(wooUrl))

\* What the catalog can answer to one POST: an HTTP status and a body that is a
\* JSON value or other text; or the fetch fails and throws.
Threw == [threw |-> "error sending request"]

JsonBody(status, value) == [status |-> status, json |-> TRUE, value |-> value]
TextBody(status, text) == [status |-> status, json |-> FALSE, text |-> text]

DUPLICATE_SKU == "product_invalid_sku"
IMAGE_UPLOAD_ERROR == "woocommerce_product_image_upload_error"

Created == JsonBody(201, [id |-> 42, permalink |-> "https://shop.example.com/?p=42"])
RejectedSku ==
    JsonBody(400, [code |-> DUPLICATE_SKU, message |-> "Invalid or duplicated SKU.",
                   data |-> [status |-> 400]])
RejectedImage ==
    JsonBody(400, [code |-> IMAGE_UPLOAD_ERROR, message |-> "Error getting remote image.",
                   data |-> [status |-> 400]])
RejectedOther ==
    JsonBody(401, [code |-> "woocommerce_rest_cannot_create",
                   message |-> "Sorry, you are not allowed to create resources.",
                   data |-> [status |-> 401]])
RejectedBare == JsonBody(500, [code |-> "internal_server_error"])
JsonNull == [status |-> 503, json |-> TRUE, isNull |-> TRUE]
GatewayPage == TextBody(502, "<html>Bad Gateway</html>")
LoginPage == TextBody(200, "<html>Log in</html>")

Upstream == {Created, RejectedSku, RejectedImage, RejectedOther, RejectedBare,
             JsonNull, GatewayPage, LoginPage, Threw}

\* response.ok
HttpOk(status) == status >= 200 /\ status <= 299

\* makeRequest's return value for an answer that did not throw.
makeRequest(u) ==
    IF ~u.json
    THEN [ok |-> FALSE, error |-> "Invalid response from WooCommerce",
          details |-> Substring(u.text, 0, 500)]
    ELSE IF "isNull" \in DOMAIN u
         THEN [ok |-> HttpOk(u.status), status |-> u.status, isNull |-> TRUE]
         ELSE [ok |-> HttpOk(u.status), status |-> u.status, result |-> u.value]

\* `apiResponse.result?.code === code`
ResultCodeIs(r, code) ==
    /\ "result" \in DOMAIN r
    /\ "code" \in DOMAIN r.result
    /\ r.result.code = code

\* A variant that regenerates the SKU after an image-upload failure too.
IsDuplicateSku_OrImageError(r) ==
    ~r.ok /\ (ResultCodeIs(r, DUPLICATE_SKU) \/ ResultCodeIs(r, IMAGE_UPLOAD_ERROR))
IsDuplicateSku(r) == ~r.ok /\ ResultCodeIs(r, DUPLICATE_SKU)

\* A variant that retries without images after any failed answer.
IsImageUploadError_AnyFailure(r) == ~r.ok
IsImageUploadError(r) == ~r.ok /\ ResultCodeIs(r, IMAGE_UPLOAD_ERROR)

\* Date.now() readings and Math.random().toString(36).substring(2, 6) strings
\* the fallback can draw.  Real clock readings are wider than the 32-bit
\* integers of the model; toString(36) is the same conversion at any width.
NowSamples == {1295, 1767000000}
RandomSamples == {"", "i", "k3z9"}

\* A variant that forgets the clock reading in the suffix.
generateUniqueSku_NoTimestamp(baseSku, now, random) == baseSku \o "-" \o random

generateUniqueSku(baseSku, now, random) ==
    baseSku \o "-" \o NatToString(now, 36) \o random

\* JSON.stringify leaves out a field whose value is undefined.
WithField(rec, f, present, v) ==
    IF present
    THEN [g \in DOMAIN rec \cup {f} |-> IF g = f THEN v ELSE rec[g]]
    ELSE rec

Reply(status, body) == [status |-> status, body |-> body]

\* catch (error) { ... }
CaughtReply(message) == Reply(500, [success |-> FALSE, error |-> message])

\* `if (apiResponse.error) ...`: the answer was not JSON.
ParseErrorReply(r) ==
    Reply(500, [success |-> FALSE, error |-> r.error, details |-> r.details])

\* `if (!apiResponse.ok) ...`
UpstreamErrorReply(r) ==
    LET res == r.result
        base == [success |-> FALSE,
                 error |-> IF "message" \in DOMAIN res /\ res.message # ""
                           THEN res.message ELSE "Failed to import product"]
    IN  Reply(r.status,
              WithField(WithField(base, "code", "code" \in DOMAIN res,
                                  IF "code" \in DOMAIN res THEN res.code ELSE ""),
                        "details", "data" \in DOMAIN res,
                        IF "data" \in DOMAIN res THEN res.data ELSE ""))

successMessage(d, sku, modified, withImages) ==
    "Product \"" \o d.product_title \o "\" imported successfully as draft"
    \o (IF modified
        THEN ". Note: SKU was modified to \"" \o sku
             \o "\" because the original SKU already exists."
        ELSE "")
    \o (IF ~withImages /\ Len(validImages(d)) > 0
        THEN " Images could not be uploaded - please add them manually in WordPress."
        ELSE "")

\* A variant that counts the record's images whether or not they were sent.
SuccessReply_CountsAll(d, wooUrl, r, sku, modified, withImages) ==
    Reply(200,
          WithField(
            [success |-> TRUE,
             product_id |-> r.result.id,
             product_url |-> r.result.permalink,
             edit_url |-> normalizedUrl(wooUrl) \o "/wp-admin/post.php?post="
                          \o IntToString(r.result.id) \o "&action=edit",
             status |-> "draft",
             sku |-> sku,
             sku_modified |-> modified,
             images_imported |-> withImages,
             images_count |-> Len(validImages(d)),
             message |-> successMessage(d, sku, modified, withImages)],
            "original_sku", modified, d.sku))

SuccessReply(d, wooUrl, r, sku, modified, withImages) ==
    Reply(200,
          WithField(
            [success |-> TRUE,
             product_id |-> r.result.id,
             product_url |-> r.result.permalink,
             edit_url |-> normalizedUrl(wooUrl) \o "/wp-admin/post.php?post="
                          \o IntToString(r.result.id) \o "&action=edit",
             status |-> "draft",
             sku |-> sku,
             sku_modified |-> modified,
             images_imported |-> withImages,
             images_count |-> IF withImages THEN Len(validImages(d)) ELSE 0,
             message |-> successMessage(d, sku, modified, withImages)],
            "original_sku", modified, d.sku))

\* The handler from `if (apiResponse.error)` to its end.
FinalReply(d, wooUrl, r, sku, modified, withImages) ==
    IF "error" \in DOMAIN r THEN ParseErrorReply(r)
    ELSE IF "isNull" \in DOMAIN r
         THEN CaughtReply("Cannot read properties of null")
         ELSE IF ~r.ok THEN UpstreamErrorReply(r)
              ELSE SuccessReply(d, wooUrl, r, sku, modified, withImages)

------------------------------------------------------------------------------
(* SpecImport: one request to the woocommerce-import handler *)

NoData == [missing |-> TRUE]

MixedImages == <<"https://via.placeholder.com/300.jpg", "https://cdn.shopify.com/p/1",
                 "", "ftp://files.example.com/a.png">>

ImportInputs ==
    { ProductData("Acme X1 550W", "acme-x1", "Home > Vacuums", Images3,
                  GoodPricing, GoodMoqs, <<"550W">>, "x"),
      ProductData("Acme X1 550W", "acme-x1", "Vacuums", MixedImages,
                  GoodPricing, <<Null, Null, Null, Null>>, <<"550W", "2L">>, "x"),
      ProductData("acme", "", "", <<>>, Pricing(Null, Null, Null, Null),
                  GoodMoqs, <<>>, ""),
      [ProductData("Acme X1 550W", "acme-x1", "Vacuums", Images3,
                   GoodPricing, GoodMoqs, <<"550W\n2L">>, "x")
          EXCEPT !.sales_content.certifications =
                     <<[name |-> "CE", details |-> "the \"EU\" mark"]>>],
      NoData }

EnvInputs ==
    [WOOCOMMERCE_URL : {"", "https://shop.example.com/wp-admin/"},
     WOOCOMMERCE_CONSUMER_KEY : {"", "ck_1"},
     WOOCOMMERCE_CONSUMER_SECRET : {"", "cs_1"}]

InitImport ==
    /\ pc = "start"
    /\ data \in ImportInputs
    /\ env \in EnvInputs
    /\ posts = <<>>
    /\ answers = <<>>
    /\ apiResponse = NoResponse
    /\ importedWithImages = TRUE
    /\ skuModified = FALSE
    /\ finalSku = ""
    /\ response = NoResponse
    /\ vres = NoResult
    /\ uiIdle
    /\ researchIdle

Return(r) == response' = r /\ pc' = "done" /\ UNCHANGED posts

\* makeRequest(payload): the POST goes out and the handler awaits the answer.
Post(payload, next) ==
    /\ posts' = Append(posts, payload)
    /\ pc' = next
    /\ UNCHANGED response

\* A variant that retries the image-less POST with the record's own SKU.
payloadWithoutImages_OriginalSku(d, sku) == [wooProduct(d) EXCEPT !.images = <<>>]

payloadWithUniqueSku(d, sku) == [wooProduct(d) EXCEPT !.sku = sku]
payloadWithoutImages(d, sku) == [wooProduct(d) EXCEPT !.images = <<>>, !.sku = sku]

\* The request arrives: credentials, body, payload, first POST.
ImportStart ==
    /\ pc = "start"
    /\ IF \/ env.WOOCOMMERCE_URL = ""
          \/ env.WOOCOMMERCE_CONSUMER_KEY = ""
          \/ env.WOOCOMMERCE_CONSUMER_SECRET = ""
       THEN /\ Return(Reply(500, [success |-> FALSE,
                                  error |-> "WooCommerce credentials not configured"]))
       ELSE IF data = NoData
            THEN Return(Reply(400, [success |-> FALSE,
                                    error |-> "Product data is required"]))
            ELSE Post(wooProduct(data), "await1")
    /\ UNCHANGED <<data, researchVars, laterVars, env, answers, apiResponse, importedWithImages, skuModified,
                   finalSku, vres, uiVars>>

\* The image-upload check and everything after it, reached with answer r.
ImageFallbackOrReturn(r, sku, modified) ==
    IF IsImageUploadError(r)
    THEN Post(payloadWithoutImages(data, sku), "await3")
    ELSE Return(FinalReply(data, env.WOOCOMMERCE_URL, r, sku, modified, TRUE))

\* The first POST is answered (or throws).
FirstAnswer ==
    /\ pc = "await1"
    /\ \E u \in Upstream :
          /\ answers' = Append(answers, u)
          /\ IF u = Threw
             THEN /\ Return(CaughtReply(u.threw))
                  /\ UNCHANGED <<apiResponse, importedWithImages, skuModified, finalSku>>
             ELSE LET r == makeRequest(u) IN
                  /\ apiResponse' = r
                  /\ importedWithImages' = TRUE
                  /\ skuModified' = FALSE
                  /\ IF IsDuplicateSku(r)
                     THEN \E now \in NowSamples, random \in RandomSamples :
                             /\ finalSku' = generateUniqueSku(wooProduct(data).sku, now, random)
                             /\ Post(payloadWithUniqueSku(data, finalSku'), "await2")
                     ELSE /\ finalSku' = wooProduct(data).sku
                          /\ ImageFallbackOrReturn(r, finalSku', FALSE)
    /\ UNCHANGED <<data, researchVars, laterVars, env, vres, uiVars>>

\* The POST with the regenerated SKU is answered (or throws).
UniqueSkuAnswer ==
    /\ pc = "await2"
    /\ \E u \in Upstream :
          /\ answers' = Append(answers, u)
          /\ IF u = Threw
             THEN /\ Return(CaughtReply(u.threw))
                  /\ UNCHANGED <<apiResponse, skuModified>>
             ELSE LET r == makeRequest(u) IN
                  /\ apiResponse' = r
                  /\ skuModified' = TRUE
                  /\ ImageFallbackOrReturn(r, finalSku, TRUE)
    /\ UNCHANGED <<data, researchVars, laterVars, env, importedWithImages, finalSku, vres, uiVars>>

\* The image-less POST is answered (or throws).
NoImagesAnswer ==
    /\ pc = "await3"
    /\ \E u \in Upstream :
          /\ answers' = Append(answers, u)
          /\ IF u = Threw
             THEN /\ Return(CaughtReply(u.threw))
                  /\ UNCHANGED <<apiResponse, importedWithImages>>
             ELSE LET r == makeRequest(u) IN
                  /\ apiResponse' = r
                  /\ importedWithImages' = FALSE
                  /\ Return(FinalReply(data, env.WOOCOMMERCE_URL, r, finalSku, skuModified, FALSE))
    /\ UNCHANGED <<data, researchVars, laterVars, env, skuModified, finalSku, vres, uiVars>>

NextImport ==
    \/ ImportStart
    \/ FirstAnswer
    \/ UniqueSkuAnswer
    \/ NoImagesAnswer

SpecImport == InitImport /\ [][NextImport]_vars

------------------------------------------------------------------------------
(* C3 - C6 *)

\* The catalog's answer is a non-success response that carries error code `code`.
RejectedWith(u, code) ==
    /\ u # Threw
    /\ u.json
    /\ ~HttpOk(u.status)
    /\ "value" \in DOMAIN u
    /\ "code" \in DOMAIN u.value
    /\ u.value.code = code

IsBase36(s) == \A i \in 1..Len(s) : Char(s, i) \in (Digits \cup LowerLetters)

Failed(rsp) == rsp # NoResponse /\ ~rsp.body.success

\* C3: when the first POST is rejected with the duplicate-SKU code, the second
\* POST is the same payload with the SKU "<original>-<suffix>", the suffix a
\* non-empty base-36 string, so it differs from the original; no later POST
\* carries yet another SKU; and when the second POST is rejected as a duplicate
\* SKU too, the call ends there, after two POSTs, in a failure that carries the
\* upstream code.
C3_DuplicateSkuRetriedOnce ==
    (Len(answers) >= 1 /\ RejectedWith(answers[1], DUPLICATE_SKU)) =>
        LET original == wooProduct(data).sku
            prefix == original \o "-"
            sku == posts[2].sku
            suffix == SubSeq(sku, Len(prefix) + 1, Len(sku))
        IN  /\ Len(posts) >= 2
            /\ posts[1].sku = original
            /\ StartsWith(sku, prefix)
            /\ Len(suffix) > 0
            /\ IsBase36(suffix)
            /\ sku # original
            /\ posts[2] = [posts[1] EXCEPT !.sku = sku]
            /\ \A i \in 2..Len(posts) : posts[i].sku = sku
            /\ (Len(answers) >= 2 /\ RejectedWith(answers[2], DUPLICATE_SKU)) =>
                  /\ pc = "done"
                  /\ Len(posts) = 2
                  /\ Failed(response)
                  /\ response.body.code = DUPLICATE_SKU

C3_Witness ==
    /\ pc = "done"
    /\ Len(answers) = 2
    /\ RejectedWith(answers[1], DUPLICATE_SKU)
    /\ RejectedWith(answers[2], DUPLICATE_SKU)
    /\ Len(posts) = 2

\* An answer that is not JSON.
NotJson(u) == u # Threw /\ ~u.json

\* A non-success answer whose error code is neither of the two fallback codes.
OtherFailure(u) ==
    /\ u # Threw
    /\ u.json
    /\ ~HttpOk(u.status)
    /\ ~RejectedWith(u, DUPLICATE_SKU)
    /\ ~RejectedWith(u, IMAGE_UPLOAD_ERROR)

\* ... and whose JSON body is an object.
OtherFailureObject(u) == OtherFailure(u) /\ "value" \in DOMAIN u

\* Every resubmission follows an answer with one of the two fallback codes, and
\* each code is the reason of at most one resubmission.
AtMostThreePosts ==
    /\ Len(posts) <= 3
    /\ \A i \in 1..(Len(posts) - 1) :
          \/ RejectedWith(answers[i], DUPLICATE_SKU)
          \/ RejectedWith(answers[i], IMAGE_UPLOAD_ERROR)
    /\ Cardinality({i \in 1..(Len(posts) - 1) :
                       RejectedWith(answers[i], DUPLICATE_SKU)}) <= 1
    /\ Cardinality({i \in 1..(Len(posts) - 1) :
                       ~RejectedWith(answers[i], DUPLICATE_SKU)}) <= 1

\* Answer i ended the call: no POST follows it.
EndsCall(i) == i = Len(answers) /\ Len(posts) = i /\ pc = "done" /\ Failed(response)

\* The failure returned carries the status, code and details of answer u.
CarriesUpstream(u) ==
    /\ response.status = u.status
    /\ ("code" \in DOMAIN u.value) =>
          ("code" \in DOMAIN response.body /\ response.body.code = u.value.code)
    /\ ("data" \in DOMAIN u.value) =>
          ("details" \in DOMAIN response.body /\ response.body.details = u.value.data)

\* C4 as claimed: at most three POSTs, and an answer that is not JSON, or a
\* non-success answer with another code, ends the call in a failure carrying
\* the upstream status, code and details.
C4_AsClaimed ==
    /\ AtMostThreePosts
    /\ \A i \in 1..Len(answers) :
          (NotJson(answers[i]) \/ OtherFailure(answers[i])) =>
              /\ EndsCall(i)
              /\ response.status = answers[i].status

\* C4, amended: at most three POSTs (the first, at most one after a
\* duplicate-SKU answer, at most one after an image-upload answer); a
\* non-success answer whose JSON body is an object with a code that is neither
\* fallback code ends the call in a failure carrying the upstream status, code
\* and details; an answer that is not JSON ends the call too, in a failure with
\* status 500, the error "Invalid response from WooCommerce" and the first 500
\* characters of the body as details; a non-success answer whose JSON body is
\* null ends the call as well, in a failure with status 500 and no code.
C4_TerminalFailures ==
    /\ AtMostThreePosts
    /\ \A i \in 1..Len(answers) :
          /\ OtherFailureObject(answers[i]) =>
                EndsCall(i) /\ CarriesUpstream(answers[i])
          /\ NotJson(answers[i]) =>
                /\ EndsCall(i)
                /\ response.status = 500
                /\ response.body.error = "Invalid response from WooCommerce"
                /\ response.body.details = Substring(answers[i].text, 0, 500)
                /\ "code" \notin DOMAIN response.body
          /\ (OtherFailure(answers[i]) /\ ~OtherFailureObject(answers[i])) =>
                /\ EndsCall(i)
                /\ response.status = 500
                /\ "code" \notin DOMAIN response.body

C4_Witness ==
    /\ pc = "done"
    /\ Len(posts) = 3
    /\ NotJson(answers[3])
    /\ answers[3].status # 500

\* C5: an image-upload answer to a POST that carried the images is followed by
\* one more POST: the payload just sent (so with the regenerated SKU when the
\* duplicate-SKU fallback ran, else the original one) with an empty image list
\* and nothing else changed; an image-upload answer to that image-less POST
\* ends the call in a failure.
C5_ImageFallbackOnce ==
    \A i \in 1..Len(answers) :
        RejectedWith(answers[i], IMAGE_UPLOAD_ERROR) =>
            IF i = 1 \/ (i = 2 /\ RejectedWith(answers[1], DUPLICATE_SKU))
            THEN /\ Len(posts) = i + 1
                 /\ posts[i + 1] = [posts[i] EXCEPT !.images = <<>>]
                 /\ posts[i + 1].sku =
                       (IF i = 2 THEN posts[2].sku ELSE wooProduct(data).sku)
            ELSE EndsCall(i) /\ response.body.code = IMAGE_UPLOAD_ERROR

C5_Witness ==
    /\ Len(answers) = 3
    /\ RejectedWith(answers[1], DUPLICATE_SKU)
    /\ RejectedWith(answers[2], IMAGE_UPLOAD_ERROR)
    /\ RejectedWith(answers[3], IMAGE_UPLOAD_ERROR)
    /\ Len(posts[2].images) > 0
    /\ posts[3].sku # wooProduct(data).sku
    /\ pc = "done"

\* C6: every payload POSTed to the catalog has status "draft", the two
\* resubmissions included, and every success result reports status "draft".
C6_AlwaysDraft ==
    /\ \A i \in 1..Len(posts) : posts[i].status = "draft"
    /\ (pc = "done" /\ response.body.success) => response.body.status = "draft"

C6_Witness ==
    /\ pc = "done"
    /\ Len(posts) = 3
    /\ response.body.success
    /\ response.body.sku_modified
    /\ ~response.body.images_imported

------------------------------------------------------------------------------
(* prefillPricing, prefillMoq *)

\* Multipliers in hundredths: 1.35 is 135.  MultiplierKeys is Object.keys() of
\* the table, in insertion order.
MultiplierKeys == <<"default", "electronics", "appliances", "cleaning">>
CATEGORY_PRICING_MULTIPLIERS ==
    [default |-> [costToSupply |-> 115, supplyToWholesale |-> 125, wholesaleToRetail |-> 150],
     electronics |-> [costToSupply |-> 120, supplyToWholesale |-> 130, wholesaleToRetail |-> 160],
     appliances |-> [costToSupply |-> 115, supplyToWholesale |-> 125, wholesaleToRetail |-> 140],
     cleaning |-> [costToSupply |-> 112, supplyToWholesale |-> 120, wholesaleToRetail |-> 135]]

\* A variant whose retailer default is 0.
DEFAULT_MOQ_NoRetailer ==
    [base |-> 100, exclusive_importer |-> 500, distributor |-> 200, retailer |-> 0]

DEFAULT_MOQ_Swapped ==
    [base |-> 100, exclusive_importer |-> 200, distributor |-> 500, retailer |-> 50]

DEFAULT_MOQ == [base |-> 100, exclusive_importer |-> 500, distributor |-> 200, retailer |-> 50]

\* Object.keys(...).find(k => category.toLowerCase().includes(k)) || 'default'
categoryKey(category) ==
    LET lc == ToLower(category)
        found == {i \in 1..Len(MultiplierKeys) : Includes(lc, MultiplierKeys[i])}
    IN  IF found = {} THEN "default"
        ELSE MultiplierKeys[CHOOSE i \in found : \A j \in found : i <= j]

RECURSIVE GCD(_, _)
GCD(a, b) == IF b = 0 THEN a ELSE GCD(b, a % b)

\* An amount that is not rounded is a fraction <<numerator, denominator>> of
\* thousandths, the denominator positive; Over divides it by the multiplier m
\* and Times multiplies it, common factors cancelled first.
Exactly(n) == <<n, 1>>
Over(q, m) ==
    LET g == GCD(q[1], m)
        h == GCD(100, q[2])
    IN  <<(q[1] \div g) * (100 \div h), (q[2] \div h) * (m \div g)>>
Times(q, m) ==
    LET g == GCD(q[1], 100)
        h == GCD(m, q[2])
    IN  <<(q[1] \div g) * (m \div h), (q[2] \div h) * (100 \div g)>>

\* A variant that cuts the amount to whole cents instead of rounding it.
Round2_Truncate(q) == 10 * (q[1] \div (10 * q[2]))

\* Math.round(q * 100) / 100: to the nearest cent, a half going up.
Round2(q) ==
    LET cent == 10 * q[2]
    IN  10 * ((q[1] \div cent) + (IF 2 * (q[1] % cent) >= cent THEN 1 ELSE 0))

\* `x || q` with x a nullable amount.
OrElse(x, q) == IF Truthy(x) THEN Exactly(Val(x)) ELSE q

\* `!x || x <= 0`
Unset(x) == ~Truthy(x) \/ Val(x) <= 0

estimatedRetail == 199990

RetailAnchored(pricing, m) ==
    LET retail == Exactly(Val(pricing.retail_price))
        fillW == Unset(pricing.wholesale_price)
        w == IF fillW THEN Num(Round2(Over(retail, m.wholesaleToRetail)))
             ELSE pricing.wholesale_price
        fillS == Unset(pricing.supply_price)
        s == IF fillS
             THEN Num(Round2(Over(OrElse(w, Over(retail, m.wholesaleToRetail)),
                                  m.supplyToWholesale)))
             ELSE pricing.supply_price
        fillC == Unset(pricing.cost_price)
        c == IF fillC
             THEN Num(Round2(Over(OrElse(s, Over(Over(retail, m.wholesaleToRetail),
                                                 m.supplyToWholesale)),
                                  m.costToSupply)))
             ELSE pricing.cost_price
    IN  [pricing |-> Pricing(c, s, w, pricing.retail_price),
         prefilled |-> Cond(fillW, "wholesale_price") \o Cond(fillS, "supply_price")
                          \o Cond(fillC, "cost_price")]

CostAnchored(pricing, m) ==
    LET cost == Exactly(Val(pricing.cost_price))
        fillS == Unset(pricing.supply_price)
        s == IF fillS THEN Num(Round2(Times(cost, m.costToSupply)))
             ELSE pricing.supply_price
        fillW == Unset(pricing.wholesale_price)
        w == IF fillW
             THEN Num(Round2(Times(OrElse(s, Times(cost, m.costToSupply)),
                                   m.supplyToWholesale)))
             ELSE pricing.wholesale_price
        fillR == Unset(pricing.retail_price)
        r == IF fillR
             THEN Num(Round2(Times(OrElse(w, Times(Times(cost, m.costToSupply),
                                                   m.supplyToWholesale)),
                                   m.wholesaleToRetail)))
             ELSE pricing.retail_price
    IN  [pricing |-> Pricing(pricing.cost_price, s, w, r),
         prefilled |-> Cond(fillS, "supply_price") \o Cond(fillW, "wholesale_price")
                          \o Cond(fillR, "retail_price")]

DefaultLadder(pricing, m) ==
    LET w == Round2(Over(Exactly(estimatedRetail), m.wholesaleToRetail))
        s == Round2(Over(Exactly(w), m.supplyToWholesale))
        c == Round2(Over(Exactly(s), m.costToSupply))
    IN  [pricing |-> Pricing(Num(c), Num(s), Num(w), Num(estimatedRetail)),
         prefilled |-> <<"cost_price", "supply_price", "wholesale_price", "retail_price">>]

prefillPricing(pricing, category) ==
    LET m == CATEGORY_PRICING_MULTIPLIERS[categoryKey(category)]
    IN  IF Truthy(pricing.retail_price) /\ Val(pricing.retail_price) > 0
        THEN RetailAnchored(pricing, m)
        ELSE IF Truthy(pricing.cost_price) /\ Val(pricing.cost_price) > 0
        THEN CostAnchored(pricing, m)
        ELSE DefaultLadder(pricing, m)

\* `x === null || x <= 0`
NullOrLe0(x) == IsNull(x) \/ Val(x) <= 0

prefillMoq(st) ==
    LET fill(f) == NullOrLe0(st[f])
        new(f, d) == IF fill(f) THEN Num(d) ELSE st[f]
    IN  [supplier_trade |->
            [st EXCEPT !.moq = new("moq", DEFAULT_MOQ.base),
                       !.moq_exclusive_importer =
                           new("moq_exclusive_importer", DEFAULT_MOQ.exclusive_importer),
                       !.moq_distributor = new("moq_distributor", DEFAULT_MOQ.distributor),
                       !.moq_retailer = new("moq_retailer", DEFAULT_MOQ.retailer)],
         prefilled |-> Cond(fill("moq"), "moq")
                          \o Cond(fill("moq_exclusive_importer"), "moq_exclusive_importer")
                          \o Cond(fill("moq_distributor"), "moq_distributor")
                          \o Cond(fill("moq_retailer"), "moq_retailer")]

------------------------------------------------------------------------------
(* The prefill steps of the research handler, called on what the model      *)
(* answered; the same input may come back in a later request.               *)

MaxCalls == 2

PriceInputs == {Null, Num(0), Num(-5000), Num(4), Num(7), Num(50000), Num(80000),
                Num(199990)}
PricingCategoryInputs == {"cleaning", "Home > Cleaning Supplies", "Electronics",
                          "Kitchen Appliances", "Uncategorized", "Cleaning Electronics"}
MoqInputs == {Null, Num(0), Num(-1), Num(1), Num(250)}

researchStart ==
    pc = "research" /\ data = NoData /\ vres = NoResult /\ uiIdle /\ importIdle /\ laterIdle

InitPrefillPricing ==
    /\ researchStart
    /\ \E c \in PriceInputs, s \in PriceInputs, w \in PriceInputs, r \in PriceInputs :
          rawPricing = Pricing(c, s, w, r)
    /\ productCategory \in PricingCategoryInputs
    /\ pricingResults = <<>>
    /\ moqIdle
    /\ hashIdle

CallPrefillPricing ==
    /\ Len(pricingResults) < MaxCalls
    /\ pricingResults' = Append(pricingResults, prefillPricing(rawPricing, productCategory))
    /\ UNCHANGED <<rawPricing, productCategory, rawST, moqResults, specs, firstHash, specHash,
                   data, validatorVars, uiVars, importVars, laterVars>>

NextPrefillPricing == CallPrefillPricing
SpecPrefillPricing == InitPrefillPricing /\ [][NextPrefillPricing]_vars

InitPrefillMoq ==
    /\ researchStart
    /\ \E m \in MoqInputs, me \in MoqInputs, md \in MoqInputs, mr \in MoqInputs :
          rawST = SupplierTrade("Acme International Ltd.", m, me, md, mr)
    /\ moqResults = <<>>
    /\ pricingIdle
    /\ hashIdle

CallPrefillMoq ==
    /\ Len(moqResults) < MaxCalls
    /\ moqResults' = Append(moqResults, prefillMoq(rawST))
    /\ UNCHANGED <<rawPricing, productCategory, pricingResults, rawST, specs, firstHash,
                   specHash, data, validatorVars, uiVars, importVars, laterVars>>

NextPrefillMoq == CallPrefillMoq
SpecPrefillMoq == InitPrefillMoq /\ [][NextPrefillMoq]_vars

------------------------------------------------------------------------------
(* C7 - C9 *)

PriceTiers == {"cost_price", "supply_price", "wholesale_price", "retail_price"}
MoqTiers == {"moq", "moq_exclusive_importer", "moq_distributor", "moq_retailer"}

Names(list) == {list[i] : i \in DOMAIN list}

\* C7: whatever branch prefillPricing takes, a tier that was > 0 on input comes
\* back unchanged, and the prefilled list names exactly the tiers that were
\* null or <= 0 on input.
C7_OnlyUnsetTiersChange ==
    \A i \in 1..Len(pricingResults) :
        LET out == pricingResults[i] IN
        /\ \A f \in PriceTiers : Gt0(rawPricing[f]) => out.pricing[f] = rawPricing[f]
        /\ Names(out.prefilled) = {f \in PriceTiers : Le0(rawPricing[f])}

\* w is p / (m / 100) rounded to the nearest cent, a half going up.
IsRound2OfQuotient(w, p, m) ==
    /\ w % 10 = 0
    /\ LET k == w \div 10 IN
       /\ 2 * k * m <= 20 * p + m
       /\ 20 * p + m < 2 * (k + 1) * m

RetailOnly ==
    /\ Gt0(rawPricing.retail_price)
    /\ \A f \in PriceTiers \ {"retail_price"} : IsNull(rawPricing[f])

\* C8: with only the retail price given, wholesale is retail / wholesaleToRetail
\* rounded to 2 decimals, supply is that wholesale / supplyToWholesale rounded
\* to 2 decimals, and cost is that supply / costToSupply rounded to 2 decimals,
\* the multipliers being those of the category; every call returns the same;
\* and retail 199.99 in category 'cleaning' gives 148.14, 123.45 and 110.22.
C8_RetailOnlyChain ==
    RetailOnly =>
        \A i \in 1..Len(pricingResults) :
            LET out == pricingResults[i].pricing
                m == CATEGORY_PRICING_MULTIPLIERS[categoryKey(productCategory)]
            IN  /\ out.retail_price = rawPricing.retail_price
                /\ IsRound2OfQuotient(Val(out.wholesale_price), Val(out.retail_price),
                                      m.wholesaleToRetail)
                /\ IsRound2OfQuotient(Val(out.supply_price), Val(out.wholesale_price),
                                      m.supplyToWholesale)
                /\ IsRound2OfQuotient(Val(out.cost_price), Val(out.supply_price),
                                      m.costToSupply)
                /\ pricingResults[i] = pricingResults[1]
                /\ (rawPricing.retail_price = Num(199990) /\ productCategory = "cleaning") =>
                      out = Pricing(Num(110220), Num(123450), Num(148140), Num(199990))

C8_Witness ==
    /\ RetailOnly
    /\ rawPricing.retail_price = Num(199990)
    /\ productCategory = "cleaning"
    /\ Len(pricingResults) = 2
    /\ pricingResults[2].pricing.wholesale_price = Num(148140)

\* C9: prefillMoq gives each MOQ tier that is null or <= 0 its own default
\* (100, 500, 200, 50), returns every tier that is > 0 and every other field
\* unchanged, and names exactly the tiers it replaced; with all four tiers
\* null the tiers come back as 100, 500, 200 and 50.
C9_MoqDefaults ==
    \A i \in 1..Len(moqResults) :
        LET out == moqResults[i]
            default == [moq |-> 100, moq_exclusive_importer |-> 500,
                        moq_distributor |-> 200, moq_retailer |-> 50]
        IN  /\ \A f \in MoqTiers :
                  out.supplier_trade[f] =
                      (IF Le0(rawST[f]) THEN Num(default[f]) ELSE rawST[f])
            /\ DOMAIN out.supplier_trade = DOMAIN rawST
            /\ \A f \in DOMAIN rawST \ MoqTiers : out.supplier_trade[f] = rawST[f]
            /\ Names(out.prefilled) = {f \in MoqTiers : Le0(rawST[f])}
            /\ Len(out.prefilled) = Cardinality(Names(out.prefilled))
            /\ (\A f \in MoqTiers : IsNull(rawST[f])) =>
                  /\ out.supplier_trade.moq = Num(100)
                  /\ out.supplier_trade.moq_exclusive_importer = Num(500)
                  /\ out.supplier_trade.moq_distributor = Num(200)
                  /\ out.supplier_trade.moq_retailer = Num(50)

C9_Witness ==
    /\ Len(moqResults) > 0
    /\ \A f \in MoqTiers : IsNull(rawST[f])
    /\ moqResults[1].prefilled =
          <<"moq", "moq_exclusive_importer", "moq_distributor", "moq_retailer">>

------------------------------------------------------------------------------
(* generateSpecHash *)

\* In this section a string is the sequence of its UTF-16 code units, so that
\* charCodeAt, the order sort() uses and the case mappings of letters outside
\* ASCII are what they are in the code: 65..90 are A..Z, 97..122 are a..z,
\* 181 is the micro sign, 924 and 956 are the Greek capital and small mu,
\* 223 is the sharp s.
MICRO == 181
CAPITAL_MU == 924
SMALL_MU == 956
SHARP_S == 223

\* String.prototype.toLowerCase, one code unit at a time.
LowerUnit(c) ==
    IF c >= 65 /\ c <= 90 THEN c + 32
    ELSE IF c = CAPITAL_MU THEN SMALL_MU
    ELSE c

\* String.prototype.toUpperCase: the micro sign and the small mu both become a
\* capital mu, and the sharp s becomes "SS".
UpperUnits(c) ==
    IF c >= 97 /\ c <= 122 THEN <<c - 32>>
    ELSE IF c = MICRO \/ c = SMALL_MU THEN <<CAPITAL_MU>>
    ELSE IF c = SHARP_S THEN <<83, 83>>
    ELSE <<c>>

toLowerCase(s) == [i \in 1..Len(s) |-> LowerUnit(s[i])]

RECURSIVE toUpperCase(_)
toUpperCase(s) == IF s = <<>> THEN <<>> ELSE UpperUnits(Head(s)) \o toUpperCase(Tail(s))

WhiteSpaceUnits == {9, 10, 32}

RECURSIVE trim(_)
trim(s) ==
    IF s = <<>> THEN s
    ELSE IF Head(s) \in WhiteSpaceUnits THEN trim(Tail(s))
    ELSE IF s[Len(s)] \in WhiteSpaceUnits THEN trim(SubSeq(s, 1, Len(s) - 1))
    ELSE s

\* The order of Array.prototype.sort() without a comparator: by code units, a
\* proper prefix first.
RECURSIVE Precedes(_, _)
Precedes(a, b) ==
    IF a = <<>> THEN TRUE
    ELSE IF b = <<>> THEN FALSE
    ELSE IF Head(a) # Head(b) THEN Head(a) < Head(b)
    ELSE Precedes(Tail(a), Tail(b))

RECURSIVE Insert(_, _)
Insert(x, sorted) ==
    IF sorted = <<>> THEN <<x>>
    ELSE IF Precedes(x, Head(sorted)) THEN <<x>> \o sorted
    ELSE <<Head(sorted)>> \o Insert(x, Tail(sorted))

RECURSIVE sort(_)
sort(list) == IF list = <<>> THEN <<>> ELSE Insert(Head(list), sort(Tail(list)))

RECURSIVE join(_, _)
join(list, sep) ==
    IF list = <<>> THEN <<>>
    ELSE IF Len(list) = 1 THEN Head(list)
    ELSE Head(list) \o sep \o join(Tail(list), sep)

\* specs.map(s => s.toLowerCase().trim()).sort().join('|')
normalized(list) == join(sort([i \in 1..Len(list) |-> trim(toLowerCase(list[i]))]), <<124>>)

\* A 32-bit integer is kept as its two 16-bit halves <<high, low>>, in two's
\* complement.
Half == 65536

\* hash = ((hash << 5) - hash) + char; hash = hash & hash
HashStep(h, char) ==
    LET low == h[2] * 31 + char
    IN  <<(h[1] * 31 + (low \div Half)) % Half, low % Half>>

RECURSIVE HashLoop(_, _)
HashLoop(h, s) == IF s = <<>> THEN h ELSE HashLoop(HashStep(h, Head(s)), Tail(s))

\* Math.abs of the 32-bit integer: the halves of its magnitude, 0 .. 2^31.
Abs32(h) ==
    IF h[1] < Half \div 2 THEN h
    ELSE <<(Half - 1 - h[1] + (IF h[2] = 0 THEN 1 ELSE 0)) % Half, (Half - h[2]) % Half>>

\* Number.prototype.toString(36) of a magnitude kept in halves.
RECURSIVE ToString36(_)
ToString36(h) ==
    LET mid == (h[1] % 36) * Half + h[2]
        q == <<(h[1] \div 36) + ((mid \div 36) \div Half), (mid \div 36) % Half>>
        digit == Char(Base36Seq, (mid % 36) + 1)
    IN  IF q = <<0, 0>> THEN digit ELSE ToString36(q) \o digit

generateSpecHash(list) == ToString36(Abs32(HashLoop(<<0, 0>>, normalized(list))))

------------------------------------------------------------------------------
(* The hashing step of the research handler: the same specifications may    *)
(* come back in another order or in another letter case.                    *)

MaxSpecs == 3

\* "HEPA", "hepa ", "550W", "5" micro "m", "Ma" sharp-s
SpecInputs == {<<72, 69, 80, 65>>, <<104, 101, 112, 97, 32>>, <<53, 53, 48, 87>>,
               <<53, MICRO, 109>>, <<77, 97, SHARP_S>>}

RECURSIVE ListsUpTo(_, _)
ListsUpTo(S, n) ==
    IF n = 0 THEN {<<>>}
    ELSE LET shorter == ListsUpTo(S, n - 1)
         IN  shorter \cup {Append(l, x) : l \in {k \in shorter : Len(k) = n - 1}, x \in S}

InitHash ==
    /\ researchStart
    /\ pricingIdle
    /\ moqIdle
    /\ specs \in ListsUpTo(SpecInputs, MaxSpecs)
    /\ firstHash = generateSpecHash(specs)
    /\ specHash = firstHash

\* The handler hashes the list it received.
Rehash(list) ==
    /\ list # specs
    /\ specs' = list
    /\ specHash' = generateSpecHash(list)
    /\ UNCHANGED <<firstHash, rawPricing, productCategory, pricingResults, rawST, moqResults,
                   data, validatorVars, uiVars, importVars, laterVars>>

Shuffled ==
    \E i \in 1..Len(specs), j \in 1..Len(specs) :
        /\ i < j
        /\ Rehash([specs EXCEPT ![i] = specs[j], ![j] = specs[i]])

UpperCased == Rehash([i \in 1..Len(specs) |-> toUpperCase(specs[i])])

LowerCased == Rehash([i \in 1..Len(specs) |-> toLowerCase(specs[i])])

NextHash == Shuffled \/ UpperCased \/ LowerCased
SpecHash == InitHash /\ [][NextHash]_vars

------------------------------------------------------------------------------
(* C10 *)

\* C10: generateSpecHash returns the same string for every list that is a
\* permutation of the list first received, or differs from it only in the
\* letter case of its entries.
C10_SameHash == specHash = firstHash

Units(list) == UNION {{list[i][k] : k \in 1..Len(list[i])} : i \in 1..Len(list)}
Count(list, x) == Cardinality({i \in 1..Len(list) : list[i] = x})
IsPermutation(a, b) ==
    /\ Len(a) = Len(b)
    /\ \A i \in 1..Len(a) : Count(a, a[i]) = Count(b, a[i])

\* Putting the entries in another order never changes the hash.
HashOrderIndependent == [][IsPermutation(specs, specs') => specHash' = specHash]_vars

\* Changing the letter case of entries made of ASCII characters never changes
\* the hash.
HashAsciiCaseIndependent ==
    [][(\A c \in Units(specs) \cup Units(specs') : c < 128) => specHash' = specHash]_vars

------------------------------------------------------------------------------
(* filterValidImages *)

\* A value of the AI reply's JSON: a string, a number, or null.
Str(s) == [str |-> s]
JsonNumber(n) == [number |-> n]
JsonNullValue == [null |-> TRUE]
IsStr(v) == "str" \in DOMAIN v

validExtensions == <<".jpg", ".jpeg", ".png", ".gif", ".webp">>
validFormats == <<"fm=jpg", "fm=jpeg", "fm=png", "fm=gif", "fm=webp", "format=jpg",
                  "format=png">>

\* The callback of images.filter(...).
ResearchImageOk(v) ==
    /\ IsStr(v)
    /\ v.str # ""
    /\ LET url == v.str
           urlLower == ToLower(url)
       IN  /\ ~IncludesSome(urlLower, invalidDomains)
           /\ StartsWith(url, "http://") \/ StartsWith(url, "https://")
           /\ \/ IncludesSome(urlLower, validExtensions)
              \/ IncludesSome(urlLower, validFormats)
              \/ IncludesSome(urlLower, trustedCdns)

RECURSIVE FilterResearchImages(_)
FilterResearchImages(list) ==
    IF list = <<>> THEN <<>>
    ELSE (IF ResearchImageOk(Head(list)) THEN <<Head(list)>> ELSE <<>>)
         \o FilterResearchImages(Tail(list))

\* A variant that returns every valid image.
Limited_All(valid) == valid

\* validImages.slice(0, 3)
Limited(valid) == SubSeq(valid, 1, IF Len(valid) < 3 THEN Len(valid) ELSE 3)

filterValidImages(images) == Limited(FilterResearchImages(images))

MaxImages == 4

ImageInputs ==
    {Str("https://x.io/a.jpg"),
     Str("https://i.imgur.com/p1"),
     Str("https://x.io/p?fm=webp"),
     Str("https://placehold.it/3.png"),
     Str("ftp://x.io/a.jpg"),
     Str("HTTPS://X.IO/A.JPG"),
     Str("https://x.io/p/1"),
     JsonNullValue}

InitImages ==
    /\ pc = "research" /\ data = NoData /\ vres = NoResult /\ uiIdle /\ importIdle
    /\ pricingIdle /\ moqIdle /\ hashIdle /\ handlerIdle /\ probeIdle /\ titleIdle
    /\ clientIdle /\ pageIdle
    /\ rawImages \in ListsUpTo(ImageInputs, MaxImages)
    /\ imageResults = <<>>

CallFilterValidImages ==
    /\ Len(imageResults) < MaxCalls
    /\ imageResults' = Append(imageResults, filterValidImages(rawImages))
    /\ UNCHANGED <<rawImages, data, validatorVars, uiVars, importVars, researchVars,
                   handlerVars, probeVars, titleVars, clientVars, pageVars>>

NextImages == CallFilterValidImages
SpecImages == InitImages /\ [][NextImages]_vars

------------------------------------------------------------------------------
(* C11 *)

\* a is b with some entries left out, the others in the same order.
RECURSIVE IsSubsequence(_, _)
IsSubsequence(a, b) ==
    IF a = <<>> THEN TRUE
    ELSE IF b = <<>> THEN FALSE
    ELSE IF Head(a) = Head(b) THEN IsSubsequence(Tail(a), Tail(b))
    ELSE IsSubsequence(a, Tail(b))

\* C11: filterValidImages returns at most 3 URLs, in their input order, and
\* every returned URL is a string that contains no placeholder domain, starts
\* with http:// or https://, and has an image extension, an image format
\* parameter or a trusted CDN in it.
C11_AtMostThreeValidImages ==
    \A i \in 1..Len(imageResults) :
        LET out == imageResults[i] IN
        /\ Len(out) <= 3
        /\ IsSubsequence(out, rawImages)
        /\ \A k \in 1..Len(out) :
              /\ IsStr(out[k])
              /\ LET url == out[k].str
                     lower == ToLower(url)
                 IN  /\ \A j \in 1..Len(invalidDomains) : ~Includes(lower, invalidDomains[j])
                     /\ SubSeq(url, 1, 7) = "http://" \/ SubSeq(url, 1, 8) = "https://"
                     /\ \/ \E j \in 1..Len(validExtensions) : Includes(lower, validExtensions[j])
                        \/ \E j \in 1..Len(validFormats) : Includes(lower, validFormats[j])
                        \/ \E j \in 1..Len(trustedCdns) : Includes(lower, trustedCdns[j])

C11_Witness ==
    /\ Len(imageResults) > 0
    /\ Len(FilterResearchImages(rawImages)) = 4
    /\ Len(imageResults[1]) = 3

------------------------------------------------------------------------------
(* The product-research handler *)

\* A JSON object is a record of its properties; the empty object has none.
EmptyObject == <<>>
IsJsonObject(v) == DOMAIN v \cap {"str", "number", "null"} = {}
\* v.f is not undefined
HasProp(v, f) == IsJsonObject(v) /\ f \in DOMAIN v
\* `parsedData.section`, read with `?.` afterwards
Section(p, sec) == IF HasProp(p, sec) THEN p[sec] ELSE JsonNullValue
\* `o?.f || dflt` for a text property
TextOr(o, f, dflt) == IF HasProp(o, f) /\ o[f] # "" THEN o[f] ELSE dflt
\* `o?.f || dflt` for an array property: every array is truthy
ListOr(o, f, dflt) == IF HasProp(o, f) THEN o[f] ELSE dflt
\* `o?.f ?? null` for a nullable number
NumberOrNull(o, f) == IF HasProp(o, f) THEN o[f] ELSE Null
\* `o?.f ?? false`
BoolOrFalse(o, f) == IF HasProp(o, f) THEN o[f] ELSE FALSE
\* `!v` of a string or a number
Falsy(v) == IF IsStr(v) THEN v.str = "" ELSE v.number = 0

\* title.replace(/[^a-z0-9\s-]/g, '')
SkuKept == LowerLetters \cup Digits \cup WhiteSpace \cup {"-"}
RECURSIVE Keep(_, _)
Keep(s, kept) ==
    IF Len(s) = 0 THEN ""
    ELSE (IF Char(s, 1) \in kept THEN Char(s, 1) ELSE "") \o Keep(SubSeq(s, 2, Len(s)), kept)

\* s.split(/\s+/).filter(w => w.length > 0)
RECURSIVE WordsFrom(_, _)
WordsFrom(s, cur) ==
    IF Len(s) = 0 THEN Cond(cur # "", cur)
    ELSE IF Char(s, 1) \in WhiteSpace
         THEN Cond(cur # "", cur) \o WordsFrom(SubSeq(s, 2, Len(s)), "")
         ELSE WordsFrom(SubSeq(s, 2, Len(s)), cur \o Char(s, 1))

generateSku(title) ==
    LET words == WordsFrom(Keep(ToLower(title), SkuKept), "")
        brand == IF Len(words) >= 1 THEN words[1] ELSE "product"
        slice == Join(SubSeq(words, 2, IF Len(words) < 3 THEN Len(words) ELSE 3), "-")
        model == IF slice # "" THEN slice ELSE "item"
    IN  brand \o "-" \o model

\* The UTF-16 code units of a string of ASCII letters, digits and punctuation.
AsciiFrom35 == "#$%&'()*+,-./0123456789:;<=>?@ABCDEFGHIJKLMNOPQRSTUVWXYZ"
CodeUnit(c) ==
    IF c = " " THEN 32
    ELSE IF c \in LowerLetters THEN 96 + IndexIn(LowerSeq, c)
    ELSE 34 + IndexIn(AsciiFrom35, c)
CodeUnits(s) == [i \in 1..Len(s) |-> CodeUnit(Char(s, i))]

\* The notes of filterValidImages: one per excluded URL, none for an entry
\* that is empty or not a string.
ImageNote(v) ==
    IF ~IsStr(v) \/ v.str = "" THEN <<>>
    ELSE LET url == v.str
             urlLower == ToLower(url)
             cut == Substring(url, 0, 50) \o "..."
         IN  IF IncludesSome(urlLower, invalidDomains)
             THEN <<"Excluded placeholder: " \o cut>>
             ELSE IF ~StartsWith(url, "http://") /\ ~StartsWith(url, "https://")
             THEN <<"Excluded non-HTTP: " \o cut>>
             ELSE IF /\ ~IncludesSome(urlLower, validExtensions)
                     /\ ~IncludesSome(urlLower, validFormats)
                     /\ ~IncludesSome(urlLower, trustedCdns)
             THEN <<"Excluded invalid format: " \o cut>>
             ELSE <<>>

RECURSIVE FilterNotes(_)
FilterNotes(list) ==
    IF list = <<>> THEN <<>> ELSE ImageNote(Head(list)) \o FilterNotes(Tail(list))

imageNotes(images) ==
    LET n == Len(FilterResearchImages(images))
    IN  FilterNotes(images)
        \o Cond(n > 3, "Limited images from " \o IntToString(n) \o " to 3")

Note(type, field, message) == [type |-> type, field |-> field, message |-> message]
SourceNote(message) == [type |-> "source", message |-> message]

RECURSIVE FieldNotes(_, _, _)
FieldNotes(fields, type, message) ==
    IF fields = <<>> THEN <<>>
    ELSE <<Note(type, Head(fields), message)>> \o FieldNotes(Tail(fields), type, message)

\* const productTitle = parsedData.product_title || productName
productTitle(parsedData, productName) ==
    IF HasProp(parsedData, "product_title") /\ ~Falsy(parsedData.product_title)
    THEN parsedData.product_title
    ELSE productName

\* const productCategory = parsedData.category || category || 'Uncategorized'
ResearchCategory(parsedData, req) ==
    TextOr(parsedData, "category", TextOr(req, "category", "Uncategorized"))

\* `${productName.split(' ')[0]}`
FirstWord(productName) == Split(productName, " ")[1]

ResearchRawPricing(parsedData) ==
    LET p == Section(parsedData, "pricing")
    IN  Pricing(NumberOrNull(p, "cost_price"), NumberOrNull(p, "supply_price"),
                NumberOrNull(p, "wholesale_price"), NumberOrNull(p, "retail_price"))

ResearchRawST(parsedData, name) ==
    LET st == Section(parsedData, "supplier_trade")
    IN  [supplier_name |-> TextOr(st, "supplier_name", FirstWord(name) \o " International Ltd."),
         hs_code |-> TextOr(st, "hs_code", ""),
         moq |-> NumberOrNull(st, "moq"),
         moq_exclusive_importer |-> NumberOrNull(st, "moq_exclusive_importer"),
         moq_distributor |-> NumberOrNull(st, "moq_distributor"),
         moq_retailer |-> NumberOrNull(st, "moq_retailer")]

companyInfo(parsedData, name) ==
    LET ci == Section(parsedData, "company_info")
    IN  [company_name |-> TextOr(ci, "company_name", FirstWord(name) \o " Inc."),
         country_of_origin |-> TextOr(ci, "country_of_origin", ""),
         year_established |-> TextOr(ci, "year_established", ""),
         ownership_partnerships |-> TextOr(ci, "ownership_partnerships", ""),
         daily_production |-> TextOr(ci, "daily_production", ""),
         annual_output |-> TextOr(ci, "annual_output", ""),
         lines_installed |-> TextOr(ci, "lines_installed", ""),
         major_products |-> TextOr(ci, "major_products", "")]

certStandards(parsedData) ==
    LET cs == Section(parsedData, "certifications_standards")
    IN  [safety_certificates |-> TextOr(cs, "safety_certificates", ""),
         additional_certifications |-> TextOr(cs, "additional_certifications", ""),
         export_licenses |-> TextOr(cs, "export_licenses", ""),
         traceability_systems |-> TextOr(cs, "traceability_systems", "")]

clientsMarkets(parsedData) ==
    LET cm == Section(parsedData, "clients_markets")
    IN  [key_clients |-> TextOr(cm, "key_clients", ""),
         export_markets |-> TextOr(cm, "export_markets", ""),
         government_supply_track_record |->
             TextOr(cm, "government_supply_track_record", "")]

DefaultExportDocumentation ==
    "Commercial Invoice, Packing List, Bill of Lading, Certificate of Origin"

contactLogistics(parsedData) ==
    LET cl == Section(parsedData, "contact_logistics")
    IN  [factory_address |-> TextOr(cl, "factory_address", ""),
         nearest_port_of_loading |-> TextOr(cl, "nearest_port_of_loading", ""),
         export_documentation |->
             TextOr(cl, "export_documentation", DefaultExportDocumentation),
         email |-> TextOr(cl, "email", ""),
         contact_number |-> TextOr(cl, "contact_number", "")]

ResearchLogistics(parsedData) ==
    LET lg == Section(parsedData, "logistics")
    IN  [import_certification_required |-> BoolOrFalse(lg, "import_certification_required"),
         import_certification_details |-> TextOr(lg, "import_certification_details", ""),
         manufacturing_time |-> TextOr(lg, "manufacturing_time", "15-30 days"),
         transit_time |-> TextOr(lg, "transit_time", ""),
         packaging_details |-> TextOr(lg, "packaging_details", ""),
         payment_method |-> TextOr(lg, "payment_method", "T/T, PayPal, LC")]

ResearchSalesContent(parsedData) ==
    LET sc == Section(parsedData, "sales_content")
    IN  [key_specifications |-> ListOr(sc, "key_specifications", <<>>),
         package_options |-> ListOr(sc, "package_options", <<"Standard packaging">>),
         applications |-> ListOr(sc, "applications", <<>>),
         certifications |-> ListOr(sc, "certifications", <<>>)]

ResearchDescriptions(parsedData, title) ==
    LET ds == Section(parsedData, "descriptions")
    IN  [product_overview |->
             TextOr(ds, "product_overview", title \o " - Professional grade product."),
         product_identity |-> TextOr(ds, "product_identity", title),
         key_highlights |-> ListOr(ds, "key_highlights", <<>>),
         trust_assurance |-> TextOr(ds, "trust_assurance", "")]

\* A variant that notes a PDF on every request.
PdfNote_Always(req) ==
    <<SourceNote("Additional data extracted from uploaded PDF document")>>

\* if (pdfContent) reviewNotes.push({ type: 'source', ... })
PdfNote(req) ==
    Cond(TextOr(req, "pdfContent", "") # "",
         SourceNote("Additional data extracted from uploaded PDF document"))

\* The notes on sources, confidence and the fields the AI reported.
ReportedNotes(parsedData, req, name) ==
    LET sources == ListOr(parsedData, "sources_used", <<>>)
        dc == Section(parsedData, "data_confidence")
        level(f) == TextOr(dc, f, "undefined")
        conf(f, field, label) ==
            Cond(~(HasProp(dc, f) /\ dc[f] = "high"),
                 Note("estimate", field, label \o " confidence: " \o level(f)))
    IN  (IF Len(sources) > 0
         THEN <<SourceNote("Data researched from: " \o Join(sources, ", "))>>
         ELSE <<SourceNote("Product researched: \"" \o name
                           \o "\". Data extracted via AI analysis.")>>)
        \o PdfNote(req)
        \o (IF HasProp(parsedData, "data_confidence")
            THEN conf("specifications", "key_specifications", "Specifications")
                 \o conf("pricing", "pricing", "Pricing")
                 \o conf("supplier_info", "supplier_info", "Supplier info")
            ELSE <<>>)
        \o FieldNotes(ListOr(parsedData, "estimated_fields", <<>>), "estimate",
                      "Value estimated based on market analysis")
        \o FieldNotes(ListOr(parsedData, "assumed_fields", <<>>), "assumption",
                      "Value assumed based on category standards")
        \o FieldNotes(ListOr(parsedData, "missing_fields", <<>>), "missing",
                      "Could not find reliable data - requires manual verification")

\* field.split('.').pop()?.replace(/_/g, ' ')
RECURSIVE Spaced(_)
Spaced(s) ==
    IF Len(s) = 0 THEN ""
    ELSE (IF Char(s, 1) = "_" THEN " " ELSE Char(s, 1)) \o Spaced(SubSeq(s, 2, Len(s)))

newFieldChecks(cs, cm, cl) ==
    <<<<cs.safety_certificates, "certifications_standards", "safety_certificates">>,
      <<cs.export_licenses, "certifications_standards", "export_licenses">>,
      <<cm.key_clients, "clients_markets", "key_clients">>,
      <<cm.export_markets, "clients_markets", "export_markets">>,
      <<cl.factory_address, "contact_logistics", "factory_address">>,
      <<cl.email, "contact_logistics", "email">>>>

RECURSIVE NewFieldNotes(_)
NewFieldNotes(checks) ==
    IF checks = <<>> THEN <<>>
    ELSE LET c == Head(checks)
         IN  Cond(c[1] = "",
                  Note("missing", c[2] \o "." \o c[3],
                       Spaced(c[3]) \o " not found. Requires manual entry."))
             \o NewFieldNotes(Tail(checks))

RECURSIVE Strs(_)
Strs(list) == IF list = <<>> THEN <<>> ELSE <<Head(list).str>> \o Strs(Tail(list))

RECURSIVE AllCodeUnits(_)
AllCodeUnits(list) ==
    IF list = <<>> THEN <<>> ELSE <<CodeUnits(Head(list))>> \o AllCodeUnits(Tail(list))

\* The record the handler builds from the parsed AI reply: lines 267-433,
\* when nothing in them throws.
researchRecord(parsedData, req) ==
    LET name == req.productName.str
        title == productTitle(parsedData, req.productName).str
        generatedSku == generateSku(title)
        category == ResearchCategory(parsedData, req)
        priced == prefillPricing(ResearchRawPricing(parsedData), category)
        traded == prefillMoq(ResearchRawST(parsedData, name))
        images == ListOr(parsedData, "images", <<>>)
        valid == filterValidImages(images)
        ci == companyInfo(parsedData, name)
        cs == certStandards(parsedData)
        cm == clientsMarkets(parsedData)
        cl == contactLogistics(parsedData)
        sales == ResearchSalesContent(parsedData)
        hash == generateSpecHash(AllCodeUnits(sales.key_specifications))
        notes ==
            ReportedNotes(parsedData, req, name)
            \o <<Note("assumption", "sku", "SKU auto-generated: \"" \o generatedSku \o "\"")>>
            \o Cond(Len(priced.prefilled) > 0,
                    Note("estimate", "pricing",
                         "Pricing prefilled: " \o Join(priced.prefilled, ", ")
                         \o ". Based on category \"" \o category \o "\" margins."))
            \o Cond(Len(traded.prefilled) > 0,
                    Note("estimate", "supplier_trade",
                         "MOQ prefilled: " \o Join(traded.prefilled, ", ")
                         \o ". Using industry defaults."))
            \o (IF Len(valid) = 0
                THEN <<Note("missing", "images",
                            "No valid product images found. Product imported as draft.")>>
                ELSE Cond(Len(valid) < Len(images),
                          Note("assumption", "images",
                               "Images filtered: " \o IntToString(Len(valid))
                               \o " valid out of " \o IntToString(Len(images)) \o ". "
                               \o Join(imageNotes(images), " "))))
            \o Cond(TextOr(Section(parsedData, "company_info"), "company_name", "") = "",
                    Note("assumption", "company_info.company_name",
                         "Company name assumed from product title."))
            \o Cond(ci.country_of_origin = "",
                    Note("missing", "company_info.country_of_origin",
                         "Country of origin not found."))
            \o Cond(ci.daily_production = "",
                    Note("missing", "company_info.daily_production",
                         "Daily production not found."))
            \o Cond(ci.annual_output = "",
                    Note("missing", "company_info.annual_output", "Annual output not found."))
            \o NewFieldNotes(newFieldChecks(cs, cm, cl))
    IN  [product_title |-> title,
         sku |-> generatedSku,
         product_type |-> "simple",
         category |-> category,
         images |-> Strs(valid),
         company_info |-> ci,
         certifications_standards |-> cs,
         clients_markets |-> cm,
         contact_logistics |-> cl,
         pricing |-> priced.pricing,
         supplier_trade |-> traded.supplier_trade,
         logistics |-> ResearchLogistics(parsedData),
         sales_content |-> sales,
         descriptions |-> ResearchDescriptions(parsedData, title),
         review_notes |-> notes,
         _metadata |-> [model_researched |-> name,
                        sources_used |-> ListOr(parsedData, "sources_used", <<"AI Analysis">>),
                        spec_hash |-> hash]]

\* What the AI endpoint answers to the one fetch.  The content of a reply is
\* held as its raw text next to what JSON.parse gives for the cleaned text.
Unparseable == [unparseable |-> TRUE]
AiThrew == [kind |-> "threw", message |-> "connection reset"]
AiNotOk == [kind |-> "notOk", text |-> "rate limit exceeded"]
AiNotJson == [kind |-> "notJson", message |-> "Unexpected token < in JSON"]
AiNullBody == [kind |-> "nullBody"]
AiNoChoices == [kind |-> "noContent"]
AiContent(raw, parsed) == [kind |-> "content", raw |-> raw, parsed |-> parsed]

HandlerReply(status, body) == [status |-> status, body |-> body]
Failure(status, error) == HandlerReply(status, [success |-> FALSE, error |-> error])

\* The statements of lines 267-433 throw a TypeError on these replies.
NullReplyError == "Cannot read properties of null (reading 'sources_used')"
TitleTypeError == "title.toLowerCase is not a function"
BuildThrows(parsedData, req) ==
    \/ parsedData = JsonNullValue
    \/ ~IsStr(productTitle(parsedData, req.productName))

\* A variant that takes a null reply for an empty object.
Build_NullAsEmpty(parsedData, req) ==
    IF parsedData # JsonNullValue /\ ~IsStr(productTitle(parsedData, req.productName))
    THEN Failure(500, TitleTypeError)
    ELSE LET productData == researchRecord(parsedData, req)
         IN  HandlerReply(200, [success |-> TRUE, data |-> productData,
                                spec_hash |-> productData._metadata.spec_hash])

\* Lines 267-448 on the parsed reply.
Build(parsedData, req) ==
    IF parsedData = JsonNullValue THEN Failure(500, NullReplyError)
    ELSE IF ~IsStr(productTitle(parsedData, req.productName))
    THEN Failure(500, TitleTypeError)
    ELSE LET productData == researchRecord(parsedData, req)
         IN  HandlerReply(200, [success |-> TRUE, data |-> productData,
                                spec_hash |-> productData._metadata.spec_hash])

\* Lines 243-265 and on, once fetch has settled with answer a.
AfterFetch(a, req) ==
    CASE a.kind = "threw" -> Failure(500, a.message)
      [] a.kind = "notOk" ->
            HandlerReply(500, [success |-> FALSE, error |-> "AI research failed",
                               details |-> a.text])
      [] a.kind = "notJson" -> Failure(500, a.message)
      [] a.kind = "nullBody" ->
            Failure(500, "Cannot read properties of null (reading 'choices')")
      [] a.kind = "noContent" -> Failure(500, "No response from AI")
      [] a.kind = "content" ->
            IF a.parsed = Unparseable
            THEN HandlerReply(500, [success |-> FALSE, error |-> "Failed to parse AI response",
                                    raw_response |-> Substring(a.raw, 0, 500)])
            ELSE Build(a.parsed, req)

MalformedBody == [malformed |-> TRUE]
\* `!productName`
NoProductName(req) == ~HasProp(req, "productName") \/ Falsy(req.productName)

\* A variant that checks productName for presence only.
BeforeFetch_NoTrim(key, req) ==
    IF key = "" THEN Failure(500, "OpenAI API key not configured")
    ELSE IF req = MalformedBody THEN Failure(500, "Unexpected end of JSON input")
    ELSE IF NoProductName(req) THEN Failure(400, "Product name is required")
    ELSE IF ~IsStr(req.productName) THEN Failure(500, "productName.trim is not a function")
    ELSE Null

\* Lines 113-241: up to the fetch.  The fetch is sent when this returns Null.
BeforeFetch(key, req) ==
    IF key = "" THEN Failure(500, "OpenAI API key not configured")
    ELSE IF req = MalformedBody THEN Failure(500, "Unexpected end of JSON input")
    ELSE IF NoProductName(req) THEN Failure(400, "Product name is required")
    ELSE IF ~IsStr(req.productName) THEN Failure(500, "productName.trim is not a function")
    ELSE IF Len(Trim(req.productName.str)) = 0 THEN Failure(400, "Product name is required")
    ELSE Null

FullReply ==
    [product_title |-> Str("Acme X1 Vacuum"),
     category |-> "Home > Cleaning",
     images |-> <<Str("https://x.io/a.jpg")>>,
     company_info |->
        [company_name |-> "Acme Ltd", country_of_origin |-> "China",
         year_established |-> "1999", ownership_partnerships |-> "private",
         daily_production |-> "500", annual_output |-> "150000",
         lines_installed |-> "4", major_products |-> "vacuums"],
     certifications_standards |->
        [safety_certificates |-> "CE", additional_certifications |-> "ISO 9001",
         export_licenses |-> "RoHS", traceability_systems |-> "QC"],
     clients_markets |->
        [key_clients |-> "retailers", export_markets |-> "EU",
         government_supply_track_record |-> "none"],
     contact_logistics |->
        [factory_address |-> "1 Road", nearest_port_of_loading |-> "Ningbo",
         export_documentation |-> "Invoice", email |-> "a@x.io", contact_number |-> "123"],
     pricing |-> Pricing(Num(50000), Num(60000), Num(80000), Num(120000)),
     supplier_trade |->
        [supplier_name |-> "Acme Trading", hs_code |-> "8508", moq |-> Num(10),
         moq_exclusive_importer |-> Num(40), moq_distributor |-> Num(20),
         moq_retailer |-> Num(5)],
     logistics |->
        [import_certification_required |-> TRUE, import_certification_details |-> "SONCAP",
         manufacturing_time |-> "20 days", transit_time |-> "30 days",
         packaging_details |-> "carton", payment_method |-> "T/T"],
     sales_content |->
        [key_specifications |-> <<"450W", "2.5L">>, package_options |-> <<"box">>,
         applications |-> <<"home">>,
         certifications |-> <<[name |-> "CE", details |-> "EU"]>>],
     descriptions |->
        [product_overview |-> "A vacuum.", product_identity |-> "Acme X1",
         key_highlights |-> <<"light">>, trust_assurance |-> "warranty"],
     sources_used |-> <<"acme.com">>,
     data_confidence |-> [specifications |-> "high", pricing |-> "high",
                          supplier_info |-> "high"],
     estimated_fields |-> <<>>,
     assumed_fields |-> <<>>,
     missing_fields |-> <<>>]

Without(r, k) == [f \in DOMAIN r \ {k} |-> r[f]]

\* The sections of a reply whose properties are texts, with those properties.
TextSectionNames ==
    {"company_info", "certifications_standards", "clients_markets", "contact_logistics",
     "descriptions", "logistics"}
TextProps(sec) ==
    {f \in DOMAIN FullReply[sec] :
        f \notin {"key_highlights", "import_certification_required"}}

\* The parsed replies the handler is run on: the complete reply, the reply
\* with one property or one section left out or left empty, replies with a
\* title, prices, quantities or images in need of a substitute, and replies
\* that are not an object.
Replies ==
    {FullReply, EmptyObject, JsonNullValue, JsonNumber(5)}
    \cup {Without(FullReply, k) : k \in DOMAIN FullReply}
    \cup UNION {{[FullReply EXCEPT ![sec][f] = ""] : f \in TextProps(sec)} :
                   sec \in TextSectionNames}
    \cup {[FullReply EXCEPT !.category = ""]}
    \cup {[FullReply EXCEPT !.sources_used = s] : s \in {<<>>, <<"acme.com", "amazon.com">>}}
    \cup {[FullReply EXCEPT !.pricing = Pricing(c, s, w, r), !.category = k] :
             c, r \in {Null, Num(10), Num(50000)}, s, w \in {Null, Num(10)},
             k \in {"Electronics", "Home > Cleaning"}}
    \cup {[FullReply EXCEPT !.pricing = Pricing(Null, Null, Null, Num(4))]}
    \cup {[FullReply EXCEPT !.supplier_trade.moq = m,
                            !.supplier_trade.moq_exclusive_importer = me,
                            !.supplier_trade.moq_distributor = md,
                            !.supplier_trade.moq_retailer = mr] :
             m, me, md, mr \in {Null, Num(-1), Num(1)}}
    \cup {[FullReply EXCEPT !.product_title = t] :
             t \in {Str(""), Str("   "), Str("Acme"), Str("#1 !"), JsonNumber(7)}}
    \cup {[FullReply EXCEPT !.supplier_trade[f] = ""] : f \in {"supplier_name", "hs_code"}}
    \cup {[FullReply EXCEPT !.supplier_trade.moq = Null,
                            !.supplier_trade.moq_retailer = Num(0)]}
    \cup {[FullReply EXCEPT !.pricing = p] :
             p \in {Pricing(Null, Null, Null, Num(120000)),
                    Pricing(Num(50000), Null, Null, Null),
                    Pricing(Null, Null, Null, Null)}}
    \cup {[FullReply EXCEPT !.images = i] :
             i \in {<<>>,
                    <<Str("https://placehold.it/3.png"), Str("https://x.io/a.jpg")>>,
                    <<Str("https://x.io/a.jpg"), Str("https://x.io/b.jpg"),
                      Str("https://x.io/c.jpg"), Str("https://x.io/d.jpg")>>}}
    \cup {[FullReply EXCEPT !.sales_content = Without(FullReply.sales_content, f)] :
             f \in DOMAIN FullReply.sales_content}
    \cup {[FullReply EXCEPT !.logistics.transit_time = "",
                            !.missing_fields = <<"logistics.transit_time">>,
                            !.data_confidence.pricing = "low"]}

AiAnswers ==
    {AiThrew, AiNotOk, AiNotJson, AiNullBody, AiNoChoices,
     AiContent("Sorry, I cannot help.", Unparseable)}
    \cup {AiContent("{...}", p) : p \in Replies}

ProductNames ==
    {Str("Jimmy H8"), Str("Acme"), Str(""), Str("  "), JsonNumber(0), JsonNumber(5)}

Requests ==
    {MalformedBody, EmptyObject}
    \cup {[productName |-> n] : n \in ProductNames}
    \cup {[productName |-> n, category |-> c] :
             n \in {Str("Jimmy H8"), Str("  ")}, c \in {"Electronics", ""}}
    \cup {[productName |-> Str("Jimmy H8"), pdfContent |-> t] : t \in {"450W motor", ""}}

InitHandler ==
    /\ pc = "research" /\ data = NoData /\ vres = NoResult /\ uiIdle /\ importIdle
    /\ pricingIdle /\ moqIdle /\ hashIdle /\ imageIdle /\ probeIdle /\ titleIdle
    /\ clientIdle /\ pageIdle
    /\ request \in Requests
    /\ openAiKey \in {"", "sk-1"}
    /\ aiCalls = 0 /\ aiAnswer = NoAnswer /\ researchResponse = NoResponse

handlerFrame ==
    UNCHANGED <<data, validatorVars, uiVars, importVars, researchVars, imageVars,
                probeVars, titleVars, clientVars, pageVars>>

\* serve, from the request to the fetch or to the Response that rejects it.
Serve ==
    /\ request # NoRequest /\ researchResponse = NoResponse /\ aiCalls = 0
    /\ IF BeforeFetch(openAiKey, request) = Null
       THEN aiCalls' = aiCalls + 1 /\ UNCHANGED researchResponse
       ELSE researchResponse' = BeforeFetch(openAiKey, request) /\ UNCHANGED aiCalls
    /\ UNCHANGED <<request, openAiKey, aiAnswer>>
    /\ handlerFrame

\* serve, from the settled fetch to the Response.
AiSettles ==
    /\ aiCalls = 1 /\ aiAnswer = NoAnswer /\ researchResponse = NoResponse
    /\ \E a \in AiAnswers :
          /\ aiAnswer' = a
          /\ researchResponse' = AfterFetch(a, request)
    /\ UNCHANGED <<request, openAiKey, aiCalls>>
    /\ handlerFrame

NextHandler == Serve \/ AiSettles
SpecHandler == InitHandler /\ [][NextHandler]_vars

------------------------------------------------------------------------------
(* C12 *)

Succeeded == researchResponse # NoResponse /\ researchResponse.body.success
Returned == researchResponse.body.data
Messages(list) == {list[i].message : i \in 1..Len(list)}

\* C12: on the record of every successful research request validateProduct
\* reports neither 'Product title is required' nor 'SKU is required',
\* whatever product_title the AI reply had.
C12_TitleAndSkuNeverEmpty ==
    Succeeded =>
        Messages(validateProduct(Returned).errors)
            \cap {"Product title is required", "SKU is required"} = {}

\* The SKU half on its own: the generated SKU is never found empty.
SkuNeverEmpty ==
    Succeeded => "SKU is required" \notin Messages(validateProduct(Returned).errors)

\* The title is found empty only when the AI reply had a product_title made
\* of whitespace alone.
TitleEmptyOnlyForBlankAiTitle ==
    (Succeeded /\ "Product title is required" \in Messages(validateProduct(Returned).errors))
        => /\ HasProp(aiAnswer.parsed, "product_title")
           /\ aiAnswer.parsed.product_title.str # ""
           /\ Trim(aiAnswer.parsed.product_title.str) = ""

------------------------------------------------------------------------------
(* C13 *)

\* The text fields of the record, by section.
RecordTextFields ==
    UNION {{<<sec, f>> : f \in TextProps(sec)} : sec \in TextSectionNames}
    \cup {<<"supplier_trade", "supplier_name">>, <<"supplier_trade", "hs_code">>}
RecordListFields ==
    {<<"sales_content", f>> : f \in DOMAIN FullReply.sales_content}
    \cup {<<"descriptions", "key_highlights">>}
PriceFields == {"cost_price", "supply_price", "wholesale_price", "retail_price"}
MoqFields == {"moq", "moq_exclusive_importer", "moq_distributor", "moq_retailer"}

\* The fields of the returned record that do not hold a value of the AI
\* reply: the reply had no (or an empty) value and the handler put a default,
\* a filler, a prefilled number or a blank there.
Substituted(parsedData) ==
    {p \in RecordTextFields : TextOr(Section(parsedData, p[1]), p[2], "") = ""}
    \cup {p \in RecordListFields : ~HasProp(Section(parsedData, p[1]), p[2])}
    \cup {<<"pricing", f>> : f \in {g \in PriceFields :
              Unset(NumberOrNull(Section(parsedData, "pricing"), g))}}
    \cup {<<"supplier_trade", f>> : f \in {g \in MoqFields :
              NullOrLe0(NumberOrNull(Section(parsedData, "supplier_trade"), g))}}
    \cup {<<"", f>> : f \in {g \in {"category"} : TextOr(parsedData, g, "") = ""}}
    \cup {<<"", f>> : f \in {g \in {"product_title"} :
              ~HasProp(parsedData, g) \/ Falsy(parsedData[g])}}
    \cup {<<"", f>> : f \in {g \in {"images"} :
              Len(filterValidImages(ListOr(parsedData, g, <<>>))) = 0}}

\* A review note names the field, by its name, its path or its section.
NoteNames(note, p) ==
    /\ "field" \in DOMAIN note
    /\ note.field \in {p[2], p[1] \o "." \o p[2]} \cup (IF p[1] = "" THEN {} ELSE {p[1]})

Noted(rec, p) == \E i \in 1..Len(rec.review_notes) : NoteNames(rec.review_notes[i], p)

\* C13: in the record of every successful research request, every field that
\* holds a default, a filler, a prefilled value or a blank in place of a
\* value the AI reply lacked has a review note naming the field or its section.
C13_EverySubstituteHasNote ==
    Succeeded => \A p \in Substituted(aiAnswer.parsed) : Noted(Returned, p)

\* The fields the handler does write a note for when it substitutes them.
NotedFields ==
    {<<"company_info", f>> :
        f \in {"company_name", "country_of_origin", "daily_production", "annual_output"}}
    \cup {<<"certifications_standards", f>> : f \in {"safety_certificates", "export_licenses"}}
    \cup {<<"clients_markets", f>> : f \in {"key_clients", "export_markets"}}
    \cup {<<"contact_logistics", f>> : f \in {"factory_address", "email"}}
    \cup {<<"pricing", f>> : f \in PriceFields}
    \cup {<<"supplier_trade", f>> : f \in MoqFields}
    \cup {<<"", "images">>}

\* Every substitute in one of those fields has its note.
NotedFieldsHaveNotes ==
    Succeeded => \A p \in Substituted(aiAnswer.parsed) \cap NotedFields : Noted(Returned, p)

\* A substitute in any other field has a note only if the AI reply listed it.
OtherFieldsHaveNoNote ==
    Succeeded =>
        \A p \in Substituted(aiAnswer.parsed) \ NotedFields :
            Noted(Returned, p) =>
                \/ \E k \in {"estimated_fields", "assumed_fields", "missing_fields"} :
                      \E i \in 1..Len(ListOr(aiAnswer.parsed, k, <<>>)) :
                          NoteNames([field |-> aiAnswer.parsed[k][i]], p)
                \/ p[1] = "supplier_trade" /\ Noted(Returned, <<"supplier_trade", "moq">>)

------------------------------------------------------------------------------
(* C14 *)

Responded == researchResponse # NoResponse
FailedWith(error) ==
    /\ Responded
    /\ ~researchResponse.body.success
    /\ researchResponse.body.error = error

\* The request has no productName, or an empty or whitespace-only one.
BlankProductName ==
    /\ request \notin {NoRequest, MalformedBody}
    /\ \/ ~HasProp(request, "productName")
       \/ IsStr(request.productName) /\ Trim(request.productName.str) = ""

\* The AI endpoint was called and answered with a non-2xx status, with no
\* content, or with content that is not JSON.
AiLetDown ==
    \/ aiAnswer.kind \in {"notOk", "noContent"}
    \/ aiAnswer.kind = "content" /\ aiAnswer.parsed = Unparseable

SingleAttempt ==
    /\ aiCalls <= 1
    /\ (aiAnswer # NoAnswer /\ AiLetDown) =>
          /\ Responded /\ ~researchResponse.body.success
          /\ aiCalls = 1

\* C14 as claimed: a request with a blank productName is rejected with
\* 'Product name is required' and no AI call; every other request calls the
\* AI endpoint at most once, and a non-2xx reply, a reply without content and
\* an unparseable reply each end it in failure with no second call.
C14_AsClaimed ==
    /\ BlankProductName =>
          /\ aiCalls = 0
          /\ Responded => FailedWith("Product name is required")
    /\ SingleAttempt

\* C14, amended: the same with the AI key configured; without the key every
\* request, blank productName or not, is rejected with 'OpenAI API key not
\* configured' and no AI call.
C14_RejectedOrSingleAttempt ==
    /\ (BlankProductName /\ openAiKey # "") =>
          /\ aiCalls = 0
          /\ Responded => FailedWith("Product name is required")
    /\ (request # NoRequest /\ openAiKey = "") =>
          /\ aiCalls = 0
          /\ Responded => FailedWith("OpenAI API key not configured")
    /\ SingleAttempt

C14_Witness ==
    /\ BlankProductName /\ openAiKey # "" /\ HasProp(request, "productName")
    /\ request.productName.str # ""
    /\ FailedWith("Product name is required") /\ researchResponse.status = 400
    /\ aiCalls = 0

------------------------------------------------------------------------------
(* The health probe *)

CredentialDetails(e) ==
    [url_configured |-> e.WOOCOMMERCE_URL # "",
     consumer_key_configured |-> e.WOOCOMMERCE_CONSUMER_KEY # "",
     consumer_secret_configured |-> e.WOOCOMMERCE_CONSUMER_SECRET # ""]

ReachedDetails(status) ==
    [url_configured |-> TRUE, consumer_key_configured |-> TRUE,
     consumer_secret_configured |-> TRUE, api_reachable |-> TRUE,
     response_status |-> status]

HealthReply(httpStatus, status, message, details) ==
    [status |-> httpStatus,
     body |-> [status |-> status, message |-> message, details |-> details]]

\* A variant that looks at the URL only.
MissingCredentials_UrlOnly(e) == e.WOOCOMMERCE_URL = ""

\* !wooUrl || !consumerKey || !consumerSecret
MissingCredentials(e) ==
    \/ e.WOOCOMMERCE_URL = ""
    \/ e.WOOCOMMERCE_CONSUMER_KEY = ""
    \/ e.WOOCOMMERCE_CONSUMER_SECRET = ""

\* The catalog API's answer to the GET: fetch throws, or a status comes with
\* a body that is not JSON, or with one that JSON.parse turns into a value.
ProbeThrew == [threw |-> "error sending request"]
ProbeNotJson(status) == [status |-> status, text |-> "<html>Sign in</html>", parsed |-> Unparseable]
ProbeJson(status, value) == [status |-> status, text |-> "{...}", parsed |-> value]

\* response.ok
ProbeOk(status) == status >= 200 /\ status <= 299

\* catch (fetchError)
FetchErrorReply(message) ==
    HealthReply(200, "network_error", message,
                [url_configured |-> TRUE, consumer_key_configured |-> TRUE,
                 consumer_secret_configured |-> TRUE, api_reachable |-> FALSE])

\* Lines 82-209 for the answer a.
ProbeResult(a) ==
    IF "threw" \in DOMAIN a THEN FetchErrorReply(a.threw)
    ELSE IF a.parsed = Unparseable
    THEN HealthReply(200, "network_error",
                     "Invalid response from WooCommerce API - expected JSON",
                     ReachedDetails(a.status))
    ELSE IF a.parsed = JsonNullValue
    THEN FetchErrorReply("Cannot read properties of null (reading '"
                         \o (IF ~ProbeOk(a.status) \/ a.status \in {401, 403}
                             THEN "message" ELSE "store")
                         \o "')")
    ELSE IF a.status = 401
    THEN HealthReply(200, "authentication_failed",
                     TextOr(a.parsed, "message",
                            "Authentication failed - check API credentials"),
                     ReachedDetails(a.status))
    ELSE IF a.status = 403
    THEN HealthReply(200, "invalid_credentials",
                     TextOr(a.parsed, "message",
                            "Access forbidden - API keys may lack required permissions"),
                     ReachedDetails(a.status))
    ELSE IF ~ProbeOk(a.status)
    THEN HealthReply(200, "network_error",
                     TextOr(a.parsed, "message",
                            "API returned status " \o IntToString(a.status)),
                     ReachedDetails(a.status))
    ELSE HealthReply(200, "connected", "WooCommerce API connection verified successfully",
                     [f \in DOMAIN ReachedDetails(a.status) \cup {"store_name", "wc_version"} |->
                         IF f = "store_name"
                         THEN TextOr(Section(a.parsed, "store"), "name",
                                     TextOr(a.parsed, "name", "Unknown"))
                         ELSE IF f = "wc_version" THEN TextOr(a.parsed, "version", "Unknown")
                         ELSE ReachedDetails(a.status)[f]])

ProbeStatuses == {200, 204, 301, 401, 403, 404, 500}
ProbeBodies ==
    {EmptyObject, JsonNullValue, JsonNumber(5),
     [message |-> "Sorry, you are not allowed to do that."],
     [name |-> "Shop", version |-> "8.1"],
     [store |-> [name |-> "Store"]]}
ProbeAnswers ==
    {ProbeThrew}
    \cup {ProbeNotJson(st) : st \in ProbeStatuses}
    \cup {ProbeJson(st, v) : st \in ProbeStatuses, v \in ProbeBodies}

ProbeEnvInputs ==
    [WOOCOMMERCE_URL : {"", "https://shop.example.com/wp-admin/", "https://shop.example.com"},
     WOOCOMMERCE_CONSUMER_KEY : {"", "ck_1"},
     WOOCOMMERCE_CONSUMER_SECRET : {"", "cs_1"}]

InitProbe ==
    /\ pc = "probe" /\ data = NoData /\ vres = NoResult /\ uiIdle
    /\ env \in ProbeEnvInputs
    /\ posts = <<>> /\ answers = <<>> /\ apiResponse = NoResponse
    /\ importedWithImages = TRUE /\ skuModified = FALSE /\ finalSku = ""
    /\ response = NoResponse
    /\ pricingIdle /\ moqIdle /\ hashIdle /\ imageIdle /\ handlerIdle /\ titleIdle
    /\ clientIdle /\ pageIdle
    /\ probeIdle

probeFrame ==
    UNCHANGED <<data, validatorVars, uiVars, importVars, researchVars, imageVars,
                handlerVars, titleVars, clientVars, pageVars>>

\* serve, from the request to the GET or to the missing_credentials Response.
ProbeStart ==
    /\ healthResponse = NoResponse /\ probeGets = <<>>
    /\ IF MissingCredentials(env)
       THEN /\ healthResponse' =
                  HealthReply(200, "missing_credentials",
                              "WooCommerce credentials not fully configured",
                              CredentialDetails(env))
            /\ UNCHANGED probeGets
       ELSE /\ probeGets' =
                  Append(probeGets,
                         [method |-> "GET",
                          url |-> normalizedUrl(env.WOOCOMMERCE_URL) \o "/wp-json/wc/v3"])
            /\ UNCHANGED healthResponse
    /\ UNCHANGED probeAnswer
    /\ probeFrame

\* serve, from the settled GET to the Response.
ProbeSettles ==
    /\ healthResponse = NoResponse /\ Len(probeGets) = 1
    /\ \E a \in ProbeAnswers :
          /\ probeAnswer' = a
          /\ healthResponse' = ProbeResult(a)
    /\ UNCHANGED probeGets
    /\ probeFrame

NextProbe == ProbeStart \/ ProbeSettles
SpecProbe == InitProbe /\ [][NextProbe]_vars

\* Both catalog functions of one deployment: an import call and a health
\* check, in any order.
InitCatalog == InitImport
NextCatalog == NextImport \/ NextProbe
SpecCatalog == InitCatalog /\ [][NextCatalog]_vars

------------------------------------------------------------------------------
(* C15 *)

\* C15: if the catalog URL, key or secret is absent, the health probe
\* returns missing_credentials, the importer returns the 'credentials not
\* configured' failure, and neither sends a request to the catalog API.
C15_NoRequestWithoutCredentials ==
    (env.WOOCOMMERCE_URL = "" \/ env.WOOCOMMERCE_CONSUMER_KEY = ""
                              \/ env.WOOCOMMERCE_CONSUMER_SECRET = "") =>
        /\ probeGets = <<>> /\ posts = <<>>
        /\ healthResponse # NoResponse =>
              healthResponse.body.status = "missing_credentials"
        /\ response # NoResponse =>
              /\ ~response.body.success
              /\ response.body.error = "WooCommerce credentials not configured"

C15_Witness ==
    /\ env.WOOCOMMERCE_URL # "" /\ env.WOOCOMMERCE_CONSUMER_KEY = ""
    /\ healthResponse # NoResponse /\ healthResponse.body.status = "missing_credentials"
    /\ response # NoResponse /\ response.body.error = "WooCommerce credentials not configured"
    /\ probeGets = <<>> /\ posts = <<>>

------------------------------------------------------------------------------
(* C16 *)

Configured ==
    /\ env.WOOCOMMERCE_URL # "" /\ env.WOOCOMMERCE_CONSUMER_KEY # ""
    /\ env.WOOCOMMERCE_CONSUMER_SECRET # ""
Probed == healthResponse # NoResponse
HealthStatus == healthResponse.body.status
Answered == "status" \in DOMAIN probeAnswer
JsonAnswer == Answered /\ probeAnswer.parsed # Unparseable
Is2xx(status) == status >= 200 /\ status <= 299

\* The mapping of the answer to a health status, for the answers in `among`.
ProbeMapping(among) ==
    (Configured /\ Probed /\ probeAnswer \in among) =>
        /\ Len(probeGets) = 1 /\ probeGets[1].method = "GET"
        /\ (JsonAnswer /\ probeAnswer.status = 401) => HealthStatus = "authentication_failed"
        /\ (JsonAnswer /\ probeAnswer.status = 403) => HealthStatus = "invalid_credentials"
        /\ (JsonAnswer /\ probeAnswer.status \notin {401, 403}
                       /\ ~Is2xx(probeAnswer.status)) => HealthStatus = "network_error"
        /\ (Answered /\ ~JsonAnswer) => HealthStatus = "network_error"
        /\ ~Answered => HealthStatus = "network_error"
        /\ HealthStatus = "connected" => (JsonAnswer /\ Is2xx(probeAnswer.status))

\* C16: with all three credentials present the probe issues exactly one GET;
\* a 401 with a JSON body gives authentication_failed, a 403 invalid_credentials,
\* any other non-2xx network_error, a non-JSON body network_error, a transport
\* failure network_error, and a 2xx with a JSON body, and nothing else, connected.
C16_StatusMapping == ProbeMapping(ProbeAnswers)

\* The mapping holds for every answer whose JSON body is not null.
MappingUnlessNullBody ==
    ProbeMapping({a \in ProbeAnswers : ~("parsed" \in DOMAIN a /\ a.parsed = JsonNullValue)})

\* A 2xx answer with a JSON body other than null gives connected.
ConnectedUnlessNullBody ==
    (Configured /\ Probed /\ JsonAnswer /\ Is2xx(probeAnswer.status)
                /\ probeAnswer.parsed # JsonNullValue) => HealthStatus = "connected"

\* A JSON body of null gives network_error whatever the status.
NullBodyIsNetworkError ==
    (Configured /\ Probed /\ JsonAnswer /\ probeAnswer.parsed = JsonNullValue) =>
        /\ HealthStatus = "network_error"
        /\ ~healthResponse.body.details.api_reachable

------------------------------------------------------------------------------
(* C17 *)

ImportSucceeded == response # NoResponse /\ response.body.success
\* A fallback ran: an answer with its code was followed by another POST.
FallbackRan(code) == \E i \in 1..(Len(posts) - 1) : RejectedWith(answers[i], code)

\* C17: on a successful import the result's sku is the SKU of the POST that
\* succeeded; sku_modified is true exactly when the duplicate-SKU fallback
\* ran, and original_sku is then the record's SKU; images_imported is false
\* exactly when the image-less fallback ran; images_count is the number of
\* images in the POST that succeeded.
C17_SuccessResultMatchesPost ==
    ImportSucceeded =>
        LET last == posts[Len(posts)]
            body == response.body
        IN  /\ Len(posts) = Len(answers)
            /\ HttpOk(answers[Len(answers)].status)
            /\ body.sku = last.sku
            /\ body.sku_modified <=> FallbackRan(DUPLICATE_SKU)
            /\ FallbackRan(DUPLICATE_SKU) =>
                  /\ "original_sku" \in DOMAIN body
                  /\ body.original_sku = data.sku
                  /\ body.sku # data.sku
            /\ body.images_imported <=> ~FallbackRan(IMAGE_UPLOAD_ERROR)
            /\ body.images_count = Len(last.images)

C17_Witness ==
    /\ ImportSucceeded
    /\ Len(posts) = 3
    /\ response.body.sku_modified /\ ~response.body.images_imported
    /\ response.body.sku = posts[3].sku /\ response.body.original_sku = posts[1].sku
    /\ Len(posts[1].images) > 0 /\ response.body.images_count = 0

------------------------------------------------------------------------------
(* The workflow API: researchProduct, wooCommerceApi.importProduct and      *)
(* wooCommerceHealthApi.checkHealth over supabase.functions.invoke          *)

\* What supabase.functions.invoke resolves with: the body of a 2xx Response
\* as data, an error for any other Response and for a request that could not
\* be sent.  It does not reject.
InvokeHttpError == [error |-> [message |-> "Edge Function returned a non-2xx status code"]]
InvokeFetchError == [error |-> [message |-> "Failed to send a request to the Edge Function"]]
invoke(rsp) ==
    IF rsp.status >= 200 /\ rsp.status <= 299 THEN [data |-> rsp.body] ELSE InvokeHttpError

\* error.message || fallback
MessageOr(error, fallback) == IF error.message # "" THEN error.message ELSE fallback

researchProduct(invoked) ==
    IF "error" \in DOMAIN invoked
    THEN [success |-> FALSE, error |-> MessageOr(invoked.error, "Failed to research product")]
    ELSE invoked.data

importProduct(invoked) ==
    IF "error" \in DOMAIN invoked
    THEN [success |-> FALSE,
          error |-> MessageOr(invoked.error, "Failed to connect to import service")]
    ELSE invoked.data

checkHealth(invoked) ==
    IF "error" \in DOMAIN invoked
    THEN [status |-> "network_error",
          message |-> MessageOr(invoked.error, "Failed to connect to health check service")]
    ELSE invoked.data

\* The Response of the edge function the workflow calls.
FunctionResponse ==
    CASE workflow = "research" -> researchResponse
      [] workflow = "import" -> response
      [] workflow = "health" -> healthResponse

Wrapped(invoked) ==
    CASE workflow = "research" -> researchProduct(invoked)
      [] workflow = "import" -> importProduct(invoked)
      [] workflow = "health" -> checkHealth(invoked)

InitWorkflows ==
    /\ vres = NoResult /\ uiIdle
    /\ pricingIdle /\ moqIdle /\ hashIdle /\ imageIdle /\ titleIdle /\ pageIdle
    /\ posts = <<>> /\ answers = <<>> /\ apiResponse = NoResponse
    /\ importedWithImages = TRUE /\ skuModified = FALSE /\ finalSku = ""
    /\ response = NoResponse
    /\ aiCalls = 0 /\ aiAnswer = NoAnswer /\ researchResponse = NoResponse
    /\ probeIdle
    /\ clientResult = NoResponse
    /\ \/ /\ workflow = "research" /\ pc = "research" /\ data = NoData /\ env = NoEnv
          /\ request \in Requests /\ openAiKey \in {"", "sk-1"}
       \/ /\ workflow = "import" /\ pc = "start" /\ data \in ImportInputs
          /\ env \in EnvInputs /\ request = NoRequest /\ openAiKey = ""
       \/ /\ workflow = "health" /\ pc = "probe" /\ data = NoData
          /\ env \in ProbeEnvInputs /\ request = NoRequest /\ openAiKey = ""

clientFrame ==
    UNCHANGED <<data, validatorVars, uiVars, importVars, researchVars, imageVars,
                handlerVars, probeVars, titleVars, pageVars, workflow>>

\* The request does not reach the edge function, or its Response is lost.
InvokeFails ==
    /\ clientResult = NoResponse
    /\ clientResult' = Wrapped(InvokeFetchError)
    /\ clientFrame

\* The edge function has answered and the wrapper returns.
ClientReturns ==
    /\ clientResult = NoResponse
    /\ FunctionResponse # NoResponse
    /\ clientResult' = Wrapped(invoke(FunctionResponse))
    /\ clientFrame

NextWorkflows ==
    \/ workflow = "research" /\ NextHandler
    \/ workflow = "import" /\ NextImport
    \/ workflow = "health" /\ NextProbe
    \/ InvokeFails
    \/ ClientReturns

\* Every outbound call eventually returns or fails, and the code between
\* two calls runs to the next one.
SpecWorkflows == InitWorkflows /\ [][NextWorkflows]_vars /\ WF_vars(NextWorkflows)

------------------------------------------------------------------------------
(* C18 *)

HealthStatuses ==
    {"connected", "authentication_failed", "invalid_credentials", "network_error",
     "missing_credentials"}

\* A {success, ...} object, with an error when success is false, or a health status.
Structured(r) ==
    IF workflow = "health"
    THEN "status" \in DOMAIN r /\ r.status \in HealthStatuses /\ "message" \in DOMAIN r
    ELSE /\ "success" \in DOMAIN r /\ r.success \in BOOLEAN
         /\ ~r.success => "error" \in DOMAIN r

AlwaysStructured ==
    /\ clientResult # NoResponse => Structured(clientResult)
    /\ FunctionResponse # NoResponse => Structured(FunctionResponse.body)

\* The outbound call threw.
OutboundThrew ==
    \/ workflow = "research" /\ aiAnswer # NoAnswer /\ aiAnswer.kind = "threw"
    \/ workflow = "import" /\ Len(answers) > 0 /\ answers[Len(answers)] = Threw
    \/ workflow = "health" /\ probeAnswer = ProbeThrew

\* The AI reply parsed to `parsed`.
ParsedTo(parsed) ==
    /\ workflow = "research" /\ aiAnswer # NoAnswer
    /\ aiAnswer.kind = "content" /\ aiAnswer.parsed = parsed

\* The workflow's function answered with a failure.
FunctionFailed ==
    /\ FunctionResponse # NoResponse
    /\ IF workflow = "health" THEN FunctionResponse.body.status = "network_error"
       ELSE ~FunctionResponse.body.success

Terminates == <>(clientResult # NoResponse)

\* C18 as claimed: every research, import and health-check call ends with a
\* structured result; a throw of the outbound call, an AI reply that parses
\* to null and one that parses to a non-object each end in a structured failure.
C18_AsClaimed ==
    /\ Terminates
    /\ [](AlwaysStructured
          /\ ((OutboundThrew \/ ParsedTo(JsonNullValue) \/ ParsedTo(JsonNumber(5)))
                 => FunctionFailed))

\* C18, amended: every research, import and health-check call ends with a
\* structured result; a throw of the outbound call and an AI reply that
\* parses to null each end in a structured failure; an AI reply that parses
\* to a non-object other than null raises no exception: the request succeeds
\* with a record made of the handler's defaults.
C18_TerminatesStructured ==
    /\ Terminates
    /\ [](AlwaysStructured
          /\ ((OutboundThrew \/ ParsedTo(JsonNullValue)) => FunctionFailed)
          /\ (ParsedTo(JsonNumber(5)) =>
                 /\ researchResponse.body.success
                 /\ researchResponse.body.data =
                       researchRecord(EmptyObject, request)))

C18_Witness ==
    /\ ParsedTo(JsonNullValue)
    /\ FunctionFailed /\ researchResponse.status = 500
    /\ clientResult = [success |-> FALSE, error |-> InvokeHttpError.error.message]

------------------------------------------------------------------------------
(* C19: reading the catalog payload back *)

\* The value of the meta_data pair with the key k.
MetaValue(p, k) ==
    LET i == CHOOSE j \in 1..Len(p.meta_data) : p.meta_data[j].key = k
    IN  p.meta_data[i].value

\* JSON.parse of a certifications value: the list JSON.stringify made it from.
KnownCertifications == {d.sales_content.certifications : d \in ImportInputs \ {NoData}}
ParseCertifications(text) ==
    CHOOSE list \in KnownCertifications : CertificationsJson(list) = text

\* What a reader of the payload gets: name, sku, regular_price, the category
\* name, the image URLs, the meta_data values, a list value split at the
\* newlines and the certifications value decoded.
ReadBack(p) ==
    [product_title |-> p.name,
     sku |-> p.sku,
     category |-> p.categories[1].name,
     images |-> [i \in 1..Len(p.images) |-> p.images[i].src],
     retail_price |-> p.regular_price,
     cost_price |-> MetaValue(p, "cost_price"),
     supply_price |-> MetaValue(p, "supply_price"),
     wholesale_price |-> MetaValue(p, "wholesale_price"),
     supplier_name |-> MetaValue(p, "supplier_name"),
     hs_code |-> MetaValue(p, "hs_code"),
     moq |-> MetaValue(p, "moq"),
     moq_exclusive_importer |-> MetaValue(p, "moq_exclusive_importer"),
     moq_distributor |-> MetaValue(p, "moq_distributor"),
     moq_retailer |-> MetaValue(p, "moq_retailer"),
     import_certification_required |-> MetaValue(p, "import_certification"),
     import_certification_details |-> MetaValue(p, "import_certification_details"),
     manufacturing_time |-> MetaValue(p, "manufacturing_time"),
     key_specifications |-> SplitBy(MetaValue(p, "key_specifications"), "\n"),
     package_options |-> SplitBy(MetaValue(p, "package_options"), "\n"),
     applications |-> SplitBy(MetaValue(p, "applications"), "\n"),
     certifications |-> ParseCertifications(MetaValue(p, "certifications")),
     product_overview |-> MetaValue(p, "product_overview"),
     key_highlights |-> SplitBy(MetaValue(p, "key_highlights"), "\n")]

\* The textual value of the same fields of the record: a string as it is, a
\* number by toString() and null as the empty text, a flag as yes or no.
TextOf(d) ==
    [product_title |-> d.product_title,
     sku |-> d.sku,
     category |-> d.category,
     images |-> d.images,
     retail_price |-> PriceText(d.pricing.retail_price),
     cost_price |-> PriceText(d.pricing.cost_price),
     supply_price |-> PriceText(d.pricing.supply_price),
     wholesale_price |-> PriceText(d.pricing.wholesale_price),
     supplier_name |-> d.supplier_trade.supplier_name,
     hs_code |-> d.supplier_trade.hs_code,
     moq |-> CountText(d.supplier_trade.moq),
     moq_exclusive_importer |-> CountText(d.supplier_trade.moq_exclusive_importer),
     moq_distributor |-> CountText(d.supplier_trade.moq_distributor),
     moq_retailer |-> CountText(d.supplier_trade.moq_retailer),
     import_certification_required |->
         IF d.logistics.import_certification_required THEN "yes" ELSE "no",
     import_certification_details |-> d.logistics.import_certification_details,
     manufacturing_time |-> d.logistics.manufacturing_time,
     key_specifications |-> d.sales_content.key_specifications,
     package_options |-> d.sales_content.package_options,
     applications |-> d.sales_content.applications,
     certifications |-> d.sales_content.certifications,
     product_overview |-> d.descriptions.product_overview,
     key_highlights |-> d.descriptions.key_highlights]

Posted == Len(posts) >= 1

Recovered(fields) ==
    \A f \in fields : ReadBack(posts[1])[f] = TextOf(data)[f]

\* C19: reading the payload the importer posts back (name, sku,
\* regular_price, category, images, the meta_data pairs with the lists split
\* at the newlines and the certifications decoded) recovers the textual value
\* of every field of the record.
C19_PayloadRoundTrip ==
    Posted => Recovered(DOMAIN TextOf(data))

\* The fields that are read back as they were in every record: the title,
\* the SKU, the texts and numbers of the meta_data pairs and the
\* certifications.
ScalarFields ==
    {"product_title", "sku", "cost_price", "supply_price", "wholesale_price",
     "supplier_name", "hs_code", "moq", "moq_exclusive_importer",
     "moq_distributor", "moq_retailer", "import_certification_required",
     "import_certification_details", "manufacturing_time", "certifications",
     "product_overview"}
ScalarFieldsReadBack == Posted => Recovered(ScalarFields)

ListFields == {"key_specifications", "package_options", "applications", "key_highlights"}
NoNewline(list) == \A i \in 1..Len(list) : ~Includes(list[i], "\n")

\* C19, amended: the title, the SKU, the texts and numbers of the meta_data
\* pairs and the certifications are read back as they were in the record; the
\* category is read back as the last segment of its path, the images as the
\* URLs that pass the importer's filter, a null retail price as "0"; a list
\* is read back as it was when it is not empty and no element holds a
\* newline, an empty list as one empty text, and a list with a newline in an
\* element as a different list.
C19_ReadBackOfPayload ==
    Posted =>
        /\ Recovered(ScalarFields)
        /\ LET path == data.category
               back == ReadBack(posts[1]).category
           IN  IF Includes(path, " > ")
               THEN /\ ~Includes(back, " > ")
                    /\ SubSeq(path, Len(path) - Len(back) - 2, Len(path))
                          = " > " \o back
               ELSE back = path
        /\ ReadBack(posts[1]).images = validImages(data)
        /\ ReadBack(posts[1]).retail_price =
              (IF IsNull(data.pricing.retail_price) THEN "0"
               ELSE PriceText(data.pricing.retail_price))
        /\ \A f \in ListFields :
              LET list == TextOf(data)[f]
                  back == ReadBack(posts[1])[f]
              IN  /\ (list # <<>> /\ NoNewline(list)) => back = list
                  /\ list = <<>> => back = <<"">>
                  /\ ~NoNewline(list) => Len(back) > Len(list)

C19_Witness ==
    /\ Posted
    /\ data.category = "Home > Vacuums" /\ ReadBack(posts[1]).category = "Vacuums"
    /\ ReadBack(posts[1]).key_specifications = <<"550W">>

C19_WitnessLossy ==
    /\ Posted
    /\ data.sales_content.key_specifications = <<"550W\n2L">>
    /\ ReadBack(posts[1]).key_specifications = <<"550W", "2L">>
    /\ MetaValue(posts[1], "certifications")
          = "[{\"name\":\"CE\",\"details\":\"the \\\"EU\\\" mark\"}]"
    /\ ReadBack(posts[1]).certifications = data.sales_content.certifications

------------------------------------------------------------------------------
(* The title formatter: parseProductName, inferKeySpecFromSpecs,            *)
(* inferKeySpecFromCategory, removeDuplicateWords, formatProductTitle       *)

Letters == UpperLetters \cup LowerLetters
AlphaNumerics == Letters \cup Digits

HasCharIn(word, chars) == \E i \in 1..Len(word) : Char(word, i) \in chars
AllCharsIn(word, chars) == \A i \in 1..Len(word) : Char(word, i) \in chars

\* /^[a-zA-Z0-9]+-[a-zA-Z0-9]+$/.test(word)
isHyphenatedCode(word) ==
    \E h \in 2..(Len(word) - 1) :
        /\ Char(word, h) = "-"
        /\ AllCharsIn(SubSeq(word, 1, h - 1), AlphaNumerics)
        /\ AllCharsIn(SubSeq(word, h + 1, Len(word)), AlphaNumerics)

isModelIdentifier(word) ==
    \/ HasCharIn(word, Letters) /\ HasCharIn(word, Digits) /\ Len(word) <= 10
    \/ isHyphenatedCode(word)

\* str.charAt(0).toUpperCase() + str.slice(1)
capitalizeFirstLetter(str) ==
    IF str = "" THEN str ELSE UpperChar(Char(str, 1)) \o SubSeq(str, 2, Len(str))

\* The for loop of parseProductName, i the 0-based index of the word it is at:
\* the model and keySpecStart it leaves.
RECURSIVE ModelScan(_, _, _, _)
ModelScan(words, i, model, keySpecStart) ==
    IF i >= (IF Len(words) < 4 THEN Len(words) ELSE 4)
    THEN <<model, keySpecStart>>
    ELSE IF isModelIdentifier(words[i + 1])
         THEN ModelScan(words, i + 1,
                        model \o (IF model # "" THEN " " ELSE "") \o words[i + 1],
                        i + 1)
         ELSE IF model = "" /\ i = 1
              THEN ModelScan(words, i + 1, words[i + 1], 2)
              ELSE <<model, keySpecStart>>

parseProductName(productName) ==
    LET words == WordsFrom(productName, "")
        scan == ModelScan(words, 1, "", 1)
        model == IF scan[1] # "" THEN scan[1]
                 ELSE IF Len(words) > 1 THEN words[2] ELSE "Series"
        keySpecStart == IF scan[1] # "" THEN scan[2]
                        ELSE IF Len(words) > 1 THEN 2 ELSE 1
    IN  IF Len(words) = 0
        THEN [brand |-> "Generic", model |-> "Product", keySpec |-> "Standard"]
        ELSE [brand |-> capitalizeFirstLetter(words[1]),
              model |-> model,
              keySpec |-> Join(SubSeq(words, keySpecStart + 1, Len(words)), " ")]

\* Object.entries(categoryKeySpecs), in the order of the literal.
categoryKeySpecs ==
    << <<"vacuum", "Cordless Vacuum Cleaner">>,
       <<"cleaner", "Deep Clean System">>,
       <<"camera", "Digital Camera">>,
       <<"drill", "Power Drill">>,
       <<"tool", "Power Tool">>,
       <<"appliance", "Home Appliance">>,
       <<"electronics", "Smart Device">>,
       <<"kitchen", "Kitchen Appliance">>,
       <<"outdoor", "Outdoor Equipment">>,
       <<"garden", "Garden Tool">>,
       <<"lighting", "LED Lighting">>,
       <<"audio", "Audio System">>,
       <<"video", "Video Equipment">> >>

\* An absent category and the empty category are both the text "": `!category`
\* is true of either.
inferKeySpecFromCategory(category) ==
    LET categoryLower == ToLower(category)
        hits == {k \in 1..Len(categoryKeySpecs) :
                    Includes(categoryLower, categoryKeySpecs[k][1])}
    IN  IF category = "" \/ hits = {} THEN "Professional Grade"
        ELSE categoryKeySpecs[CHOOSE k \in hits : \A j \in hits : k <= j][2]

\* The match of /\d+\s*(u1|u2|...)/i that starts at position i of s, or "":
\* the run of digits from i, any white space, then the first of the units, in
\* their order, that the text continues with.
MatchAt(s, i, units) ==
    IF Char(s, i) \notin Digits THEN ""
    ELSE LET pastDigits ==
                 CHOOSE e \in (i + 1)..(Len(s) + 1) :
                     /\ \A j \in i..(e - 1) : Char(s, j) \in Digits
                     /\ (e = Len(s) + 1 \/ Char(s, e) \notin Digits)
             pastSpace ==
                 CHOOSE u \in pastDigits..(Len(s) + 1) :
                     /\ \A j \in pastDigits..(u - 1) : Char(s, j) \in WhiteSpace
                     /\ (u = Len(s) + 1 \/ Char(s, u) \notin WhiteSpace)
             fits == {k \in 1..Len(units) :
                         /\ pastSpace + Len(units[k]) - 1 <= Len(s)
                         /\ ToLower(SubSeq(s, pastSpace, pastSpace + Len(units[k]) - 1))
                               = units[k]}
         IN  IF fits = {} THEN ""
             ELSE SubSeq(s, i, pastSpace - 1
                               + Len(units[CHOOSE k \in fits : \A j \in fits : k <= j]))

\* s.match(regex)[1] for the leftmost match, or "" when there is none.
FirstMatch(s, units) ==
    LET starts == {i \in 1..Len(s) : MatchAt(s, i, units) # ""}
    IN  IF starts = {} THEN ""
        ELSE MatchAt(s, CHOOSE i \in starts : \A j \in starts : i <= j, units)

\* specifications.find(test): the first entry that passes, or "" (no entry
\* that passes is empty).
FindSpec(specifications, Test(_)) ==
    LET hits == {k \in 1..Len(specifications) : Test(specifications[k])}
    IN  IF hits = {} THEN ""
        ELSE specifications[CHOOSE k \in hits : \A j \in hits : k <= j]

\* W and Watt; L, Liter, litre, ml, GB, TB, MP; min, minute, hour, hr: with
\* the i flag, and in the order of the regex that extracts the match.
PowerUnits == <<"w">>
CapacityUnits == <<"l", "gb", "tb", "mp", "ml">>
RuntimeUnits == <<"min", "minute", "hour", "hr">>

IsPowerSpec(spec) == FirstMatch(spec, PowerUnits) # ""
IsCapacitySpec(spec) == FirstMatch(spec, CapacityUnits) # ""
IsRuntimeSpec(spec) == FirstMatch(spec, RuntimeUnits) # ""
IsNumericSpec(spec) == HasCharIn(spec, Digits)

\* replace(/\s/g, '')
NoSpaces(s) == Join(WordsFrom(s, ""), "")

inferKeySpecFromSpecs(specifications, category) ==
    LET powerSpec == FindSpec(specifications, IsPowerSpec)
        capacitySpec == FindSpec(specifications, IsCapacitySpec)
        runtimeSpec == FindSpec(specifications, IsRuntimeSpec)
        numericSpec == FindSpec(specifications, IsNumericSpec)
    IN  IF Len(specifications) = 0 THEN inferKeySpecFromCategory(category)
        ELSE IF powerSpec # "" THEN NoSpaces(ToUpper(FirstMatch(powerSpec, PowerUnits)))
        ELSE IF capacitySpec # "" THEN NoSpaces(FirstMatch(capacitySpec, CapacityUnits))
        ELSE IF runtimeSpec # "" THEN FirstMatch(runtimeSpec, RuntimeUnits)
        ELSE IF numericSpec # ""
             THEN Trim(Substring(Split(numericSpec, ",")[1], 0, 20))
        ELSE inferKeySpecFromCategory(category)

RECURSIVE Unseen(_, _)
Unseen(words, seen) ==
    IF words = <<>> THEN <<>>
    ELSE IF ToLower(Head(words)) \in seen THEN Unseen(Tail(words), seen)
         ELSE <<Head(words)>> \o Unseen(Tail(words), seen \cup {ToLower(Head(words))})

removeDuplicateWords(str) == Join(Unseen(Split(str, " "), {}), " ")

\* An absent specification list is the empty list: `specifications || []`.
formatProductTitle(productName, specifications, category) ==
    LET parsed == parseProductName(productName)
        finalKeySpec == IF parsed.keySpec = ""
                        THEN inferKeySpecFromSpecs(specifications, category)
                        ELSE parsed.keySpec
        fullTitle ==
            Join(WordsFrom(removeDuplicateWords(parsed.brand \o " " \o parsed.model
                                                \o " " \o finalKeySpec), ""), " ")
    IN  IF Len(Split(fullTitle, " ")) < 3
        THEN removeDuplicateWords(fullTitle \o " " \o inferKeySpecFromCategory(category))
        ELSE fullTitle

------------------------------------------------------------------------------
(* SpecTitle: calls of formatProductTitle *)

TitleNames ==
    {"jimmy h8 flex", "jimmy h8", "jimmy h8 r10", "jimmy h8 r10 x5 z9", "jimmy",
     "jimmy flex", "", "   ", "vacuum h8", "cordless x1", "Bosch GSB-13 drill",
     "  dyson   v15  ", "professional grade", "5 h8"}

TitleSpecifications ==
    {<<>>, <<"Power: 550 W">>, <<"quiet", "Tank 2L">>, <<"Runtime 40 minutes">>,
     <<"3 modes, quiet">>, <<"quiet">>, <<"5\tmin">>}

TitleCategories == {"", "Home > Vacuum", "Power Tools", "Toys"}

InitTitle ==
    /\ pc = "title" /\ data = NoData /\ vres = NoResult /\ uiIdle /\ importIdle
    /\ pricingIdle /\ moqIdle /\ hashIdle /\ imageIdle /\ handlerIdle /\ probeIdle
    /\ clientIdle /\ pageIdle
    /\ titleArgs \in [productName : TitleNames,
                      specifications : TitleSpecifications,
                      category : TitleCategories]
    /\ titleResult = ""

CallFormatProductTitle ==
    /\ titleResult = ""
    /\ titleResult' = formatProductTitle(titleArgs.productName,
                                         titleArgs.specifications,
                                         titleArgs.category)
    /\ UNCHANGED <<titleArgs, data, validatorVars, uiVars, importVars, researchVars,
                   imageVars, handlerVars, probeVars, clientVars, pageVars>>

NextTitle == CallFormatProductTitle
SpecTitle == InitTitle /\ [][NextTitle]_vars

------------------------------------------------------------------------------
(* C20 *)

Formatted == titleResult # ""
WordCount(title) == Len(Split(title, " "))
Parsed == parseProductName(titleArgs.productName)

\* Every word after the brand went into the model: no key-spec words are left.
AllModelTokens == Len(WordsFrom(titleArgs.productName, "")) > 0 /\ Parsed.keySpec = ""
VacuumCategory == Includes(ToLower(titleArgs.category), "vacuum")

\* C20: for a name whose words after the brand are all taken as model tokens,
\* an empty specification list and a category containing 'vacuum', the title
\* contains 'Cordless Vacuum Cleaner' and has at least 3 words; 'jimmy h8
\* flex' is such a name, with brand 'Jimmy' and model 'h8 flex'.
C20_VacuumTitle ==
    Formatted =>
        /\ (AllModelTokens /\ titleArgs.specifications = <<>> /\ VacuumCategory)
              => /\ Includes(titleResult, "Cordless Vacuum Cleaner")
                 /\ WordCount(titleResult) >= 3
        /\ titleArgs.productName = "jimmy h8 flex"
              => /\ Parsed.brand = "Jimmy" /\ Parsed.model = "h8 flex"
                 /\ AllModelTokens

\* What the formatter does with 'jimmy h8 flex': the scan stops at 'flex', the
\* model is 'h8', the key spec 'flex', and nothing is inferred.
JimmyH8Flex ==
    (Formatted /\ titleArgs.productName = "jimmy h8 flex")
        => /\ Parsed = [brand |-> "Jimmy", model |-> "h8", keySpec |-> "flex"]
           /\ titleResult = "Jimmy h8 flex"

\* The inferred key spec is in the title unless the brand or the model
\* already holds one of its words.
InferredKeySpecInTitle ==
    (Formatted /\ AllModelTokens /\ titleArgs.specifications = <<>> /\ VacuumCategory)
        => /\ WordCount(titleResult) >= 3
           /\ (Includes(titleResult, "Cordless Vacuum Cleaner")
                 <=> \A w \in {"cordless", "vacuum", "cleaner"} :
                        \A i \in 1..Len(WordsFrom(titleArgs.productName, "")) :
                            ToLower(WordsFrom(titleArgs.productName, "")[i]) # w)

------------------------------------------------------------------------------
(* The research page: handleSubmit of Index over the duplicate registry     *)
(* (validateSpecUniqueness, registerSpecHash, clearSpecRegistry)            *)

\* specHashRegistry.get(specHash): the product name, or "" for undefined
\* (either is falsy).
RegistryGet(registry, hash) ==
    IF \E e \in registry : e[1] = hash
    THEN (CHOOSE e \in registry : e[1] = hash)[2]
    ELSE ""

\* A variant that tells every hash unique.
validateSpecUniqueness_Always(registry, hash, productName) == [isUnique |-> TRUE]

validateSpecUniqueness(registry, hash, productName) ==
    LET existingProduct == RegistryGet(registry, hash)
    IN  IF existingProduct # "" /\ existingProduct # productName
        THEN [isUnique |-> FALSE, conflictingProduct |-> existingProduct]
        ELSE [isUnique |-> TRUE]

\* specHashRegistry.set(specHash, productName)
registerSpecHash(registry, hash, productName) ==
    {e \in registry : e[1] # hash} \cup {<<hash, productName>>}

MaxSubmits == 2

PageNames == {"", "P", "Q"}

\* "HEPA", "hepa ", "550W", "Ma" sharp-s, "MASS"
Hepa == <<72, 69, 80, 65>>
HepaLowerSpaced == <<104, 101, 112, 97, 32>>
Watts == <<53, 53, 48, 87>>
Mass == <<77, 97, SHARP_S>>
MassUpper == <<77, 65, 83, 83>>

\* The key_specifications a successful research can come back with.
PageSpecLists ==
    {<<>>, <<Hepa>>, <<HepaLowerSpaced>>, <<Hepa, Watts>>, <<Watts, HepaLowerSpaced>>,
     <<Hepa, HepaLowerSpaced>>, <<Mass>>, <<MassUpper>>}

InitPage ==
    /\ pc = "page" /\ data = NoData /\ vres = NoResult /\ uiIdle /\ importIdle
    /\ pricingIdle /\ moqIdle /\ hashIdle
    /\ imageIdle /\ handlerIdle /\ probeIdle /\ titleIdle /\ clientIdle
    /\ pageIdle

pageFrame ==
    UNCHANGED <<data, validatorVars, uiVars, importVars, researchVars, imageVars,
                handlerVars, probeVars, titleVars, clientVars>>

Submit(productName) == [productName |-> productName, stage |-> "researching"]

\* handleSubmit up to `await researchProduct(...)`.
HandleSubmit ==
    /\ Len(submits) < MaxSubmits
    /\ \E productName \in PageNames :
          submits' = Append(submits, Submit(productName))
    /\ pageData' = NoRecord
    /\ UNCHANGED specHashRegistry
    /\ pageFrame

\* researchProduct returned a failure, or threw: the toast, and nothing else.
ResearchFails ==
    /\ \E i \in 1..Len(submits) :
          /\ submits[i].stage = "researching"
          /\ submits' = [submits EXCEPT ![i].stage = "failed"]
    /\ UNCHANGED <<specHashRegistry, pageData>>
    /\ pageFrame

\* researchProduct returned a record, which the handler does for a name that
\* is not blank only: handleSubmit from the uniqueness check to its end.
ResearchSucceeds ==
    /\ \E i \in 1..Len(submits), list \in PageSpecLists :
          LET productName == submits[i].productName
              hash == generateSpecHash(list)
              validation == validateSpecUniqueness(specHashRegistry, hash, productName)
          IN  /\ submits[i].stage = "researching"
              /\ Trim(productName) # ""
              /\ IF ~validation.isUnique
                 THEN /\ submits' = [submits EXCEPT ![i] =
                            [productName |-> productName, stage |-> "flagged",
                             key_specifications |-> list, spec_hash |-> hash,
                             conflictingProduct |-> validation.conflictingProduct]]
                      /\ UNCHANGED <<specHashRegistry, pageData>>
                 ELSE /\ submits' = [submits EXCEPT ![i] =
                            [productName |-> productName, stage |-> "displayed",
                             key_specifications |-> list, spec_hash |-> hash]]
                      /\ specHashRegistry' =
                            registerSpecHash(specHashRegistry, hash, productName)
                      /\ pageData' = [submit |-> i, productName |-> productName,
                                      key_specifications |-> list]
    /\ pageFrame

ClearSpecRegistry ==
    /\ specHashRegistry # {}
    /\ specHashRegistry' = {}
    /\ UNCHANGED <<submits, pageData>>
    /\ pageFrame

NextPage == HandleSubmit \/ ResearchFails \/ ResearchSucceeds \/ ClearSpecRegistry
SpecPage == InitPage /\ [][NextPage]_vars

\* The page without clearSpecRegistry, which no code of the application calls.
NextPageNoClear == HandleSubmit \/ ResearchFails \/ ResearchSucceeds
SpecPageNoClear == InitPage /\ [][NextPageNoClear]_vars

------------------------------------------------------------------------------
(* C21 *)

\* A specification without its letter case and surrounding white space, and
\* the set of them a list holds.
Folded(spec) == trim(toLowerCase(toUpperCase(spec)))
SpecSet(list) == {Folded(list[k]) : k \in 1..Len(list)}

Accepted(i) == submits[i].stage = "displayed"
\* Submit j gets its record in this step.
Succeeds(j) ==
    submits[j].stage = "researching" /\ submits'[j].stage \in {"displayed", "flagged"}
Shows(j) == "submit" \in DOMAIN pageData' /\ pageData'.submit = j
FlaggedNaming(j, productName) ==
    /\ submits'[j].stage = "flagged"
    /\ submits'[j].conflictingProduct = productName
    /\ ~Shows(j)

\* C21: once a research for P is accepted, a later successful research under
\* another name with the same set of specifications, up to order, case and
\* surrounding white space, is flagged naming P and not displayed; a later
\* research for P with the same specifications is accepted and displayed.
C21_DuplicateFlagged ==
    [][\A i, j \in 1..Len(submits) :
          (i # j /\ Accepted(i) /\ Succeeds(j))
             => /\ (/\ submits[j].productName # submits[i].productName
                    /\ SpecSet(submits'[j].key_specifications)
                          = SpecSet(submits[i].key_specifications))
                      => FlaggedNaming(j, submits[i].productName)
                /\ (/\ submits[j].productName = submits[i].productName
                    /\ submits'[j].key_specifications = submits[i].key_specifications)
                      => submits'[j].stage = "displayed" /\ Shows(j)]_vars

\* The same with lists that the hash normalises to the same text: equal as
\* lists once sorted, lower-cased and trimmed.
FlaggedWhenNormalizedEqual ==
    [][\A i, j \in 1..Len(submits) :
          (i # j /\ Accepted(i) /\ Succeeds(j))
             => /\ (/\ submits[j].productName # submits[i].productName
                    /\ normalized(submits'[j].key_specifications)
                          = normalized(submits[i].key_specifications))
                      => FlaggedNaming(j, submits[i].productName)
                /\ (/\ submits[j].productName = submits[i].productName
                    /\ submits'[j].key_specifications = submits[i].key_specifications)
                      => submits'[j].stage = "displayed" /\ Shows(j)]_vars

\* "MASS" after "Ma" sharp-s under another name is on display.
MassNotFlagged ==
    /\ Len(submits) = 2
    /\ submits[1].stage = "displayed" /\ submits[1].key_specifications = <<Mass>>
    /\ submits[2].stage = "displayed" /\ submits[2].key_specifications = <<MassUpper>>
    /\ submits[1].productName # submits[2].productName
    /\ pageData.submit = 2

------------------------------------------------------------------------------
(* C28 *)

\* Submit j ends in this step without a record on display: the research
\* failed, or it was flagged as a duplicate.
EndsRejected(j) ==
    submits[j].stage = "researching" /\ submits'[j].stage \in {"failed", "flagged"}

\* C28: whatever the interleaving of the research workflows, and except in a
\* step of clearSpecRegistry, a hash that is registered to a product name
\* stays registered to that name, and a research that fails or that is
\* flagged as a duplicate leaves the registry as it was.
C28_RegistryStable ==
    [][/\ ClearSpecRegistry \/ \A e \in specHashRegistry : e \in specHashRegistry'
       /\ (\E j \in 1..Len(submits) : EndsRejected(j))
             => specHashRegistry' = specHashRegistry]_vars

\* Two workflows in flight at once: the second to start returned first and
\* was registered, the first was flagged against it and registered nothing.
C28_Witness ==
    /\ Len(submits) = 2
    /\ submits[2].stage = "displayed"
    /\ submits[1].stage = "flagged"
    /\ submits[1].conflictingProduct = submits[2].productName
    /\ submits[1].spec_hash = submits[2].spec_hash
    /\ specHashRegistry = {<<submits[2].spec_hash, submits[2].productName>>}

------------------------------------------------------------------------------
(* SpecHierarchy: validateProduct on records that differ in their prices *)

\* null, 0, a negative amount, 50.00, 100.00 and 199.99
HierarchyTierInputs == {Null, Num(0), Num(-100), Num(5000), Num(10000), Num(19999)}

InitHierarchy ==
    /\ pc = "validate"
    /\ \E p \in HierarchyTierInputs \X HierarchyTierInputs
                \X HierarchyTierInputs \X HierarchyTierInputs :
          data = ProductData("Acme X1 550W", "acme-x1", "Home > Vacuums", <<>>,
                             Pricing(p[1], p[2], p[3], p[4]),
                             <<Num(100), Num(500), Num(200), Num(50)>>, <<"550W">>, "x")
    /\ vres = NoResult
    /\ uiIdle
    /\ importIdle
    /\ researchIdle

NextHierarchy == Validate
SpecHierarchy == InitHierarchy /\ [][NextHierarchy]_vars

------------------------------------------------------------------------------
(* C22 *)

\* The pairs of neighbouring tiers and the warning of each.
HierarchyPairs ==
    {<<"cost_price", "supply_price", "Cost price should be less than supply price">>,
     <<"supply_price", "wholesale_price",
       "Supply price should be less than wholesale price">>,
     <<"wholesale_price", "retail_price",
       "Wholesale price should be less than retail price">>}
HierarchyMessages == {h[3] : h \in HierarchyPairs}

Validated == pc = "validated"
Present(x) == Gt0(x)
TierOrder == <<"cost_price", "supply_price", "wholesale_price", "retail_price">>

\* The tiers that are present are strictly increasing, from cost to retail.
PresentTiersIncreasing(p) ==
    \A i, j \in 1..4 :
        (i < j /\ Present(p[TierOrder[i]]) /\ Present(p[TierOrder[j]]))
            => Val(p[TierOrder[i]]) < Val(p[TierOrder[j]])

\* C22: validateProduct emits the warning of a pair of neighbouring tiers
\* whenever both are present (> 0) and the lower is not less than the upper,
\* whatever the other tiers are, and emits no hierarchy warning when the
\* present tiers are strictly increasing.
C22_HierarchyWarnings ==
    Validated =>
        /\ \A h \in HierarchyPairs :
              (/\ Present(data.pricing[h[1]]) /\ Present(data.pricing[h[2]])
               /\ Val(data.pricing[h[1]]) >= Val(data.pricing[h[2]]))
                 => h[3] \in Messages(vres.warnings)
        /\ PresentTiersIncreasing(data.pricing)
              => Messages(vres.warnings) \cap HierarchyMessages = {}

\* What the validator does: it compares the tiers only when all four are
\* set to a number other than 0, and then each pair, negative amounts too.
HierarchyOnlyWithAllFour ==
    Validated =>
        \A h \in HierarchyPairs :
            h[3] \in Messages(vres.warnings)
               <=> /\ \A f \in DOMAIN data.pricing : Truthy(data.pricing[f])
                   /\ Val(data.pricing[h[1]]) >= Val(data.pricing[h[2]])

\* Cost 100.00 above supply 50.00, no wholesale price: no hierarchy warning.
InversionUnnoticed ==
    /\ Validated
    /\ data.pricing.cost_price = Num(10000) /\ data.pricing.supply_price = Num(5000)
    /\ data.pricing.wholesale_price = Null
    /\ Messages(vres.warnings) \cap HierarchyMessages = {}

------------------------------------------------------------------------------
(* SpecImageUrls: one image URL through filterValidImages and through the    *)
(* importer's filter                                                        *)

UrlInputs ==
    {"https://cdn.shopify.com/p/1",
     "https://res.cloudinary.com/demo/1",
     "https://evil.example.com/cdn.shopify.com/p1",
     "https://x.io/p?ref=i.imgur.com",
     "https://i.imgur.com.evil.io/p",
     "https://x.io/p/1",
     "https://x.io/a.jpg",
     "https://x.io/p?fm=webp",
     "https://placehold.it/3",
     "ftp://cdn.shopify.com/p"}

ConfiguredEnv ==
    [WOOCOMMERCE_URL |-> "https://shop.example.com",
     WOOCOMMERCE_CONSUMER_KEY |-> "ck_1", WOOCOMMERCE_CONSUMER_SECRET |-> "cs_1"]

InitImageUrls ==
    /\ pc = "start" /\ vres = NoResult /\ uiIdle
    /\ pricingIdle /\ moqIdle /\ hashIdle /\ handlerIdle /\ probeIdle /\ titleIdle
    /\ clientIdle /\ pageIdle
    /\ env = ConfiguredEnv
    /\ posts = <<>> /\ answers = <<>> /\ apiResponse = NoResponse
    /\ importedWithImages = TRUE /\ skuModified = FALSE /\ finalSku = ""
    /\ response = NoResponse
    /\ \E url \in UrlInputs :
          /\ rawImages = <<Str(url)>>
          /\ data = ProductData("Acme X1 550W", "acme-x1", "Vacuums", <<url>>,
                                GoodPricing, GoodMoqs, <<"550W">>, "x")
    /\ imageResults = <<>>

NextImageUrls == CallFilterValidImages \/ NextImport
SpecImageUrls == InitImageUrls /\ [][NextImageUrls]_vars

------------------------------------------------------------------------------
(* C23 *)

\* The host of an http(s) URL: what stands between "://" and the next "/",
\* "?" or "#".
UrlHost(url) ==
    LET from == (CHOOSE i \in 1..Len(url) : SubSeq(url, i, i + 2) = "://") + 3
        ends == {i \in from..Len(url) : Char(url, i) \in {"/", "?", "#"}}
        to == IF ends = {} THEN Len(url) + 1 ELSE CHOOSE i \in ends : \A j \in ends : i <= j
    IN  ToLower(SubSeq(url, from, to - 1))

\* The host is a trusted CDN, or a subdomain of one.
EndsWithText(s, p) == Len(s) >= Len(p) /\ SubSeq(s, Len(s) - Len(p) + 1, Len(s)) = p
TrustedHost(url) ==
    \E i \in 1..Len(trustedCdns) :
        UrlHost(url) = trustedCdns[i] \/ EndsWithText(UrlHost(url), "." \o trustedCdns[i])

\* No recognized file extension and no recognized format parameter, for
\* either filter.
Unformatted(url) ==
    /\ ~IncludesSome(ToLower(url), validExtensions)
    /\ ~IncludesSome(ToLower(url), validImageFormats)

TheUrl == data.images[1]
ResearchFiltered == Len(imageResults) >= 1
ResearchAccepts == ResearchFiltered /\ imageResults[1] = rawImages
ImportFiltered == Len(posts) >= 1
ImportAccepts == ImportFiltered /\ ImagePayload(<<TheUrl>>) = posts[1].images

\* C23: either filter accepts a URL without a recognized extension or format
\* parameter only if the host of the URL is a trusted CDN; the name of a
\* trusted CDN in the path or the query of a URL on another host does not
\* make the URL acceptable.
C23_TrustedByHost ==
    ((ResearchAccepts \/ ImportAccepts) /\ Unformatted(TheUrl)) => TrustedHost(TheUrl)

\* What the filters do: such a URL is accepted exactly when the name of a
\* trusted CDN stands anywhere in it.
TrustedBySubstring ==
    /\ (ResearchFiltered /\ Unformatted(TheUrl) /\ TheUrl # "https://placehold.it/3")
          => (ResearchAccepts
                <=> /\ IncludesSome(ToLower(TheUrl), trustedCdns)
                    /\ StartsWith(TheUrl, "http"))
    /\ (ImportFiltered /\ Unformatted(TheUrl) /\ TheUrl # "https://placehold.it/3")
          => (ImportAccepts
                <=> /\ IncludesSome(ToLower(TheUrl), trustedCdns)
                    /\ StartsWith(TheUrl, "http"))

\* A URL on another host with the CDN's name in its path passed both filters.
CdnNameInPathAccepted ==
    /\ TheUrl = "https://evil.example.com/cdn.shopify.com/p1"
    /\ ResearchAccepts /\ ImportAccepts

------------------------------------------------------------------------------
(* SpecImageNotes: the two results of filterValidImages, validImages and    *)
(* notes                                                                    *)

NoteImageInputs ==
    {Str("https://x.io/a.jpg"),
     Str("https://i.imgur.com/p1"),
     Str("https://placehold.it/3.png"),
     Str("ftp://x.io/a.jpg"),
     Str("https://x.io/p/1"),
     Str(""),
     JsonNullValue}

InitImageNotes ==
    /\ pc = "research" /\ data = NoData /\ vres = NoResult /\ uiIdle /\ importIdle
    /\ pricingIdle /\ moqIdle /\ hashIdle /\ handlerIdle /\ probeIdle /\ titleIdle
    /\ clientIdle /\ pageIdle
    /\ rawImages \in ListsUpTo(NoteImageInputs, MaxImages)
    /\ imageResults = <<>>

\* return { validImages: limited, notes }
CallFilterWithNotes ==
    /\ imageResults = <<>>
    /\ imageResults' = <<[validImages |-> filterValidImages(rawImages),
                          notes |-> imageNotes(rawImages)]>>
    /\ UNCHANGED <<rawImages, data, validatorVars, uiVars, importVars, researchVars,
                   handlerVars, probeVars, titleVars, clientVars, pageVars>>

NextImageNotes == CallFilterWithNotes
SpecImageNotes == InitImageNotes /\ [][NextImageNotes]_vars

------------------------------------------------------------------------------
(* C24 *)

NotesReturned == Len(imageResults) = 1
Rejected == {i \in 1..Len(rawImages) : ~ResearchImageOk(rawImages[i])}
AcceptedCount == Len(rawImages) - Cardinality(Rejected)
\* The rejected entries that are a string with something in it.
RejectedUrls == {i \in Rejected : IsStr(rawImages[i]) /\ rawImages[i].str # ""}

\* C24: the notes of filterValidImages are one for every entry it rejects and
\* one more when more than 3 entries were accepted.
C24_OneNotePerRejection ==
    NotesReturned =>
        Len(imageResults[1].notes)
            = Cardinality(Rejected) + (IF AcceptedCount > 3 THEN 1 ELSE 0)

\* What the filter does: a note for every rejected entry that is a string
\* with something in it, none for an empty entry or one that is not a string,
\* and one more when more than 3 entries were accepted.
OneNotePerRejectedUrl ==
    NotesReturned =>
        Len(imageResults[1].notes)
            = Cardinality(RejectedUrls) + (IF AcceptedCount > 3 THEN 1 ELSE 0)

\* A null entry and an empty one were rejected and nothing was noted.
RejectedWithoutNote ==
    /\ NotesReturned
    /\ rawImages = <<JsonNullValue, Str("")>>
    /\ imageResults[1].validImages = <<>> /\ imageResults[1].notes = <<>>

------------------------------------------------------------------------------
(* C25 *)

SourceNotes == SelectSeq(Returned.review_notes, LAMBDA n : n.type = "source")
\* The sources the AI reply reported, and whether the request carried PDF text.
ReportedSources ==
    IF HasProp(aiAnswer.parsed, "sources_used") THEN aiAnswer.parsed.sources_used ELSE <<>>
PdfSupplied == HasProp(request, "pdfContent") /\ request.pdfContent # ""

\* C25: the review notes of a successful research result hold one source note
\* for the origin of the research, listing the sources the AI reported when
\* there are any and the synthesized note otherwise, and after it one more
\* source note exactly when PDF content was supplied.
C25_SourceNotes ==
    Succeeded =>
        /\ Len(SourceNotes) = 1 + (IF PdfSupplied THEN 1 ELSE 0)
        /\ SourceNotes[1].message =
              (IF ReportedSources # <<>>
               THEN "Data researched from: " \o Join(ReportedSources, ", ")
               ELSE "Product researched: \"" \o request.productName.str
                    \o "\". Data extracted via AI analysis.")
        /\ PdfSupplied =>
              SourceNotes[2].message = "Additional data extracted from uploaded PDF document"

\* A result for a request with PDF text and a reply without sources.
C25_Witness ==
    /\ Succeeded /\ PdfSupplied /\ ReportedSources = <<>>
    /\ Len(SourceNotes) = 2

------------------------------------------------------------------------------
(* C26 *)

TitleWords == WordsFrom(titleResult, "")
NoEqualWords ==
    \A i, j \in 1..Len(TitleWords) :
        i # j => ToLower(TitleWords[i]) # ToLower(TitleWords[j])
EmptyName == Trim(titleArgs.productName) = ""

\* C26: for every product name, specification list and category the title of
\* formatProductTitle has no two words equal ignoring case and at least 3
\* words, and for an empty or whitespace-only name it is 'Generic Product
\* Standard'.
C26_TitleWords ==
    Formatted =>
        /\ NoEqualWords
        /\ WordCount(titleResult) >= 3
        /\ EmptyName => titleResult = "Generic Product Standard"

\* What the formatter guarantees: the fallback for an empty name, at least 2
\* words, and no equal words when the inferred key spec has no tab or line
\* break in it.
TitleGuarantees ==
    Formatted =>
        /\ EmptyName => titleResult = "Generic Product Standard"
        /\ WordCount(titleResult) >= 2
        /\ (\A i \in 1..Len(titleArgs.specifications) :
               Split(titleArgs.specifications[i], "\t") = <<titleArgs.specifications[i]>>)
              => NoEqualWords

\* The suffix 'Professional Grade' repeats the name and is removed again.
TwoWordTitle ==
    /\ titleArgs.productName = "professional grade" /\ titleArgs.category = ""
    /\ titleArgs.specifications = <<>>
    /\ titleResult = "Professional grade"

\* A key spec matched over a tab gives the title a word twice.
RepeatedWordTitle ==
    /\ titleArgs.productName = "5 h8" /\ titleArgs.specifications = <<"5\tmin">>
    /\ titleResult = "5 h8 5 min"

------------------------------------------------------------------------------
(* C27 *)

ReplyPricing == ResearchRawPricing(aiAnswer.parsed)
ReplyTrade == ResearchRawST(aiAnswer.parsed, request.productName.str)
\* Every price of the reply is null or an amount of at least one cent, which
\* is 10 thousandths.
PricesNullOrFromOneCent ==
    \A f \in PriceTiers : IsNull(ReplyPricing[f]) \/ Val(ReplyPricing[f]) >= 10
PricingOrMoqMessages ==
    {"At least one pricing field must be set",
     "Cost price missing - using estimated value",
     "Supply price missing - using estimated value",
     "Wholesale price missing - using estimated value",
     "Retail price missing - using estimated value",
     "Base MOQ missing - using default",
     "MOQ Exclusive Importer using default",
     "MOQ Distributor using default",
     "MOQ Retailer using default"}

\* C27: when the prices of the AI reply are null or at least one cent and its
\* MOQ values null or integers, the record of a successful research request
\* has all four prices and all four MOQ values above 0, and validateProduct
\* reports on it neither 'At least one pricing field must be set' nor a
\* missing-price or MOQ warning.
C27_PrefilledRecordComplete ==
    (Succeeded /\ PricesNullOrFromOneCent) =>
        /\ \A f \in PriceTiers : Gt0(Returned.pricing[f])
        /\ \A f \in MoqTiers : Gt0(Returned.supplier_trade[f])
        /\ Messages(validateProduct(Returned).errors) \cap PricingOrMoqMessages = {}
        /\ Messages(validateProduct(Returned).warnings) \cap PricingOrMoqMessages = {}

\* A reply with a retail price of one cent and nothing else, in the category
\* with the largest multipliers: every tier is prefilled to one cent.
C27_Witness ==
    /\ Succeeded /\ PricesNullOrFromOneCent
    /\ ReplyPricing = Pricing(Null, Null, Null, Num(10))
    /\ aiAnswer.parsed.category = "Electronics"
    /\ Returned.pricing = Pricing(Num(10), Num(10), Num(10), Num(10))

\* A reply whose MOQ values are all -1: every one gets its default.
AllMoqDefaulted ==
    /\ Succeeded /\ PricesNullOrFromOneCent
    /\ \A f \in MoqTiers : ReplyTrade[f] = Num(-1)
    /\ Returned.supplier_trade.moq_retailer = Num(DEFAULT_MOQ.retailer)

\* A price below one cent leaves a tier at 0, and the validator warns.
SubCentPriceWarned ==
    /\ Succeeded /\ ReplyPricing = Pricing(Null, Null, Null, Num(4))
    /\ ~Gt0(Returned.pricing.wholesale_price)
    /\ "Wholesale price missing - using estimated value"
          \in Messages(validateProduct(Returned).warnings)

------------------------------------------------------------------------------
(* C29 *)

\* POST i + 1 is the duplicate-SKU resubmission: it carries another SKU than
\* POST i.  It is the image resubmission when it drops images POST i carried
\* or follows an image-upload failure with the SKU unchanged.
SkuResubmission(i) == posts[i + 1].sku # posts[i].sku
ImageResubmission(i) ==
    /\ posts[i + 1].sku = posts[i].sku
    /\ posts[i + 1].images = <<>>

\* C29: the duplicate-SKU fallback comes first and the image fallback second,
\* each at most once.  An image-upload failure of the first POST followed by
\* a duplicate-SKU failure of the image-less POST ends the call in failure
\* after two POSTs, the SKU never regenerated; a duplicate-SKU failure
\* followed by an image-upload failure is followed by a third POST.
C29_FallbackOrder ==
    /\ \A i \in 1..(Len(posts) - 1) :
          /\ SkuResubmission(i) => (i = 1 /\ RejectedWith(answers[1], DUPLICATE_SKU))
          /\ ~SkuResubmission(i) =>
                (ImageResubmission(i) /\ i = Len(posts) - 1
                   /\ RejectedWith(answers[i], IMAGE_UPLOAD_ERROR))
    /\ (Len(answers) >= 1 /\ RejectedWith(answers[1], DUPLICATE_SKU)) => SkuResubmission(1)
    /\ (/\ Len(answers) >= 2
        /\ RejectedWith(answers[1], IMAGE_UPLOAD_ERROR)
        /\ RejectedWith(answers[2], DUPLICATE_SKU))
          => /\ EndsCall(2)
             /\ ~skuModified
             /\ \A i \in 1..Len(posts) : posts[i].sku = wooProduct(data).sku
             /\ response.body.code = DUPLICATE_SKU
    /\ (/\ Len(answers) >= 2
        /\ RejectedWith(answers[1], DUPLICATE_SKU)
        /\ RejectedWith(answers[2], IMAGE_UPLOAD_ERROR))
          => /\ Len(posts) = 3
             /\ ImageResubmission(2)

\* The image fallback was tried, then the duplicate SKU ended the call.
C29_Witness ==
    /\ pc = "done" /\ Len(answers) = 2 /\ Len(posts) = 2
    /\ RejectedWith(answers[1], IMAGE_UPLOAD_ERROR)
    /\ RejectedWith(answers[2], DUPLICATE_SKU)
    /\ Failed(response)

\* Both fallbacks were tried, in order.
BothFallbacksTried ==
    /\ Len(answers) = 2 /\ Len(posts) = 3
    /\ RejectedWith(answers[1], DUPLICATE_SKU)
    /\ RejectedWith(answers[2], IMAGE_UPLOAD_ERROR)

------------------------------------------------------------------------------
(* C30 *)

Importing == state = "importing"

\* C30: for one ImportButton at most one import call is in flight at any
\* time, since neither import action starts a call while state is
\* 'importing', the dialog closed and reopened or not; and every import that
\* starts moves the state to 'success' or 'error' in the end, the call
\* returning or throwing.
C30_OneImportAtATime ==
    /\ [](inflight <= 1 /\ (inflight = 1 <=> Importing))
    /\ [][Importing => (calls' = calls /\ inflight' <= inflight)]_vars
    /\ (inflight > 0) ~> (inflight = 0 /\ state \in {"success", "error"})

\* The dialog was closed and reopened on the validation tab while the import
\* is in flight.
C30_Witness ==
    /\ Importing /\ inflight = 1
    /\ dialogOpen /\ activeTab = "validation"
    /\ validationResult.isValid

==============================================================================
